---------------------------- MODULE Spec2Model ----------------------------
(***************************************************************************)
(* A model of the volumetric ray renderer of run_nerf.py: render,          *)
(* batchify_rays, render_rays and raw2outputs.                             *)
(*                                                                         *)
(* Numbers.  The code computes in float32.  The model computes on a grid   *)
(* of fixed-point values with FracBits fractional bits (the integer n      *)
(* stands for n / ONE), products and quotients rounded toward zero.  The   *)
(* inputs are drawn from sets on which the transcendental functions of the *)
(* code are exact on that grid:                                            *)
(*   - a raw density k stands for k * ONE * ln 2, so that                  *)
(*     exp(-relu(k) * dist) = 2^-(k * n) for a distance of n grid units;   *)
(*   - a raw colour logit is -1, 0 or 1 and stands for a saturating        *)
(*     negative logit, 0 and a saturating positive logit, whose sigmoids   *)
(*     are 0, 1/2 and 1.                                                   *)
(* The constant 1e-10 of the code is EPS, one grid unit: it is below the   *)
(* resolution of every nonzero value (x + 1e-10 = x in float32 for every   *)
(* x >= 2^-9), and it is what is left when it is added to an exact zero.   *)
(* The constant 1e10 is BIG, its reciprocal.  NaN and Inf are two reserved *)
(* values outside the range of the grid.                                   *)
(***************************************************************************)
EXTENDS Integers, Sequences, FiniteSets, TLC

VARIABLES
    pc,        \* position of the running call
    inp,       \* the arguments of the call (fixed during the call)
    DEBUG,     \* the module-level DEBUG flag (line 29)
    rng,       \* the generators: torch's state, numpy's state, values drawn so far
    rays_flat, \* render: the ray records handed to batchify_rays
    i,         \* batchify_rays: the loop index
    all_ret,   \* batchify_rays: key -> rows collected so far
    calls,     \* history: one record per render_rays call
    printed,   \* history: the keys reported by the numerical-health check
    trace,     \* history: the processing steps taken, in order
    error,     \* the exception that ended the call, or "none"
    result,    \* what the call returned
    heap,      \* train: the dictionaries in memory, by reference
    render_kwargs_train, \* train: reference of the training configuration
    render_kwargs_test,  \* train: reference of the evaluation configuration
    start,     \* train: the first iteration of the loop
    global_step, \* train: the step counter
    iter,      \* train: the loop variable i of line 1129
    i_batch,   \* train: the cursor into the shuffled rays
    rays_rgb,  \* train: the training rays, in their current order
    optimizer, \* train: the number of optimizer steps applied to the weights
    ckpts,     \* the checkpoint files of the experiment, by iteration number
    epoch,     \* history: the batches taken since the last shuffle
    last_epoch, \* history: the batches of the last completed epoch
    rendered,  \* history: the last render call of the training loop
    runs       \* history: the number of times train was started

\* the state of render and the state of train
renderVars == <<DEBUG, rng, rays_flat, i, all_ret, calls, printed, trace, result>>
trainVars == <<heap, render_kwargs_train, render_kwargs_test, start, global_step, iter,
               i_batch, rays_rgb, optimizer, ckpts, epoch, last_epoch, rendered, runs>>

vars == <<pc, inp, error, renderVars, trainVars>>

-----------------------------------------------------------------------------
(* Bounds of the model *)

FracBits == 6
MaxRays == 3
MaxChunk == 3
NSamples == 3
NImportance == 2
NIntSamples == 3
NoiseStd == 4

-----------------------------------------------------------------------------
(* Arithmetic *)

\* the sequence f, evaluated once (TLC keeps a function constructor as an
\* unevaluated expression and would evaluate it again at every application)
Tup(f) == SubSeq(f, 1, Len(f))

ONE == 2 ^ FracBits
EPS == 1
BIG == ONE * ONE
NaN == 0 - (2 ^ 30)
Inf == 2 ^ 30

Mul(a, b) == IF a * b >= 0 THEN (a * b) \div ONE ELSE 0 - (((0 - a * b)) \div ONE)

Relu(x) == IF x > 0 THEN x ELSE 0

\* exp(-m * ln 2) for an integer m >= 0; below the resolution it is 0
Exp2Neg(m) == IF m > FracBits THEN 0 ELSE 2 ^ (FracBits - m)

\* x + 1e-10
AddEps(x) == IF x = 0 THEN EPS ELSE x

\* a / b for a, b >= 0, with the IEEE results of a division by zero
FDiv(a, b) ==
    IF a = NaN \/ b = NaN THEN NaN
    ELSE IF b = 0 THEN (IF a = 0 THEN NaN ELSE Inf)
    ELSE (a * ONE) \div b

\* torch.max(a, b) of two tensors, elementwise: a NaN operand is returned
FMax(a, b) == IF a = NaN \/ b = NaN THEN NaN ELSE IF a >= b THEN a ELSE b

\* 1.0 / x for x >= 0
FRecip(x) ==
    IF x = NaN THEN NaN
    ELSE IF x = Inf THEN 0
    ELSE IF x = 0 THEN Inf
    ELSE (ONE * ONE) \div x

IsNanOrInf(x) == x = NaN \/ x = Inf

Sigmoid(x) == IF x < 0 THEN 0 ELSE IF x = 0 THEN ONE \div 2 ELSE ONE

RECURSIVE SumSeq(_)
SumSeq(s) == IF s = <<>> THEN 0 ELSE Head(s) + SumSeq(Tail(s))

\* the largest r in lo..hi with r * r <= x (lo * lo <= x)
RECURSIVE IsqrtIn(_, _, _)
IsqrtIn(x, lo, hi) ==
    IF lo >= hi THEN lo
    ELSE LET mid == (lo + hi + 1) \div 2
         IN  IF mid * mid <= x THEN IsqrtIn(x, mid, hi) ELSE IsqrtIn(x, lo, mid - 1)

\* sqrt(x), rounded toward zero, for 0 <= x < 2^30
Isqrt(x) == IsqrtIn(x, 0, 2 ^ 15)

\* torch.norm(v, dim=-1) of a 3-vector
Norm3(v) == Isqrt(v[1] * v[1] + v[2] * v[2] + v[3] * v[3])

\* torch.cumprod(s, -1)
RECURSIVE CumProd(_)
CumProd(s) ==
    IF Len(s) <= 1 THEN s
    ELSE LET c == CumProd(SubSeq(s, 1, Len(s) - 1))
         IN  Append(c, Mul(c[Len(c)], s[Len(s)]))

-----------------------------------------------------------------------------
(* The random generators.  A generator is a position in a fixed sequence;  *)
(* a draw of n values reads n consecutive entries and advances by n.  The  *)
(* state of the generators is a record of torch's position, numpy's        *)
(* position and the number of values drawn so far.                         *)

TorchSeq == <<2, 0, 3, 1, 1>>
NumpySeq == <<1, 3, 0, 2, 2, 0, 1>>

Draw(seq, g, j) == seq[((g + j) % Len(seq)) + 1]
Advance(seq, g, n) == (g + n) % Len(seq)

\* the generators as seeded at start-up (line 28), nothing drawn yet
Seeded == [torch |-> 0, np |-> 0, drawn |-> 0]

\* states the generators may be in when a call is made
RngStates == { Seeded, [torch |-> 2, np |-> 3, drawn |-> 0] }

\* a value of torch.rand / np.random.rand, in [0, 1)
Uniform(v) == (v * ONE) \div 4
\* a value of torch.randn, in density units
Normal(v) == v - 2

-----------------------------------------------------------------------------
(* raw2outputs, lines 424-476.  raw[r][s] is the field's output for sample  *)
(* s of ray r (three colour logits, then the density), z_vals[r][s] its    *)
(* depth, rays_d[r] the direction of ray r.                                *)

\* line 437: raw2alpha = 1 - exp(-relu(raw) * dists)
raw2alpha(raw, dists) == ONE - Exp2Neg(Relu(raw) * dists)

\* lines 439-444: the distances between adjacent samples, the last one 1e10,
\* each multiplied by the norm of the direction
Dists(z, d) ==
    LET norm == Norm3(d)
    IN  Tup([s \in 1..Len(z) |->
            Mul(IF s < Len(z) THEN z[s + 1] - z[s] ELSE BIG, norm)])

\* lines 447-455: the noise added to the density of sample s of ray r
\* (nsamp samples per ray), drawn from the generators in state g
Noise(raw_noise_std, pytest, g, r, s, nsamp) ==
    IF raw_noise_std > 0
    THEN IF pytest
         THEN Mul(Uniform(Draw(NumpySeq, 0, (r - 1) * nsamp + (s - 1))), raw_noise_std * ONE) \div ONE
         ELSE Normal(Draw(TorchSeq, g.torch, (r - 1) * nsamp + (s - 1))) * raw_noise_std
    ELSE 0

\* the generators after the draws of lines 448-455 for n values
NoiseRng(raw_noise_std, pytest, g, n) ==
    IF raw_noise_std > 0
    THEN [torch |-> Advance(TorchSeq, g.torch, n),
          np |-> IF pytest THEN Advance(NumpySeq, 0, n) ELSE g.np,
          drawn |-> g.drawn + (IF pytest THEN 2 * n ELSE n)]
    ELSE g

\* a variant of Weights whose cumulative product includes the sample itself
\* (the leading 1 is left out)
WeightsInclusive(alpha) ==
    Tup([s \in 1..Len(alpha) |->
        Mul(alpha[s], CumProd(Tup([j \in 1..Len(alpha) |-> AddEps(ONE - alpha[j])]))[s])])

\* a variant of Weights that leaves the transmittance out
WeightsAlphaOnly(alpha) == alpha

\* lines 459-464: alpha * cumprod(cat([1, 1 - alpha + 1e-10]))[:, :-1]
Weights(alpha) ==
    LET trans == CumProd(<<ONE>> \o Tup([s \in 1..Len(alpha) |-> AddEps(ONE - alpha[s])]))
    IN  Tup([s \in 1..Len(alpha) |-> Mul(alpha[s], trans[s])])

\* lines 467-470: 1 / max(1e-10, depth_map / sum(weights))
DispMap(depth_map, weights) ==
    FRecip(FMax(EPS, FDiv(depth_map, SumSeq(weights))))

\* line 457: the opacity of every sample of one ray
Alpha(raw, z, d, noise) ==
    LET dists == Dists(z, d)
    IN  Tup([s \in 1..Len(z) |-> raw2alpha(raw[s][4] + noise[s], dists[s])])

\* a variant of Maps whose white background adds acc_map to every channel
MapsAddAcc(rgb, weights, z, white_bkgd) ==
    [rgb_map |-> Tup([c \in 1..3 |->
                    SumSeq(Tup([s \in 1..Len(z) |-> Mul(weights[s], rgb[s][c])]))
                        + (IF white_bkgd THEN SumSeq(weights) ELSE 0)]),
     disp_map |-> DispMap(SumSeq(Tup([s \in 1..Len(z) |-> Mul(weights[s], z[s])])), weights),
     acc_map |-> SumSeq(weights),
     weights |-> weights,
     depth_map |-> SumSeq(Tup([s \in 1..Len(z) |-> Mul(weights[s], z[s])]))]

\* lines 466-474 for one ray: the maps from the colours and the weights
Maps(rgb, weights, z, white_bkgd) ==
    [rgb_map |-> Tup([c \in 1..3 |->
                    SumSeq(Tup([s \in 1..Len(z) |-> Mul(weights[s], rgb[s][c])]))
                        + (IF white_bkgd THEN ONE - SumSeq(weights) ELSE 0)]),
     disp_map |-> DispMap(SumSeq(Tup([s \in 1..Len(z) |-> Mul(weights[s], z[s])])), weights),
     acc_map |-> SumSeq(weights),
     weights |-> weights,
     depth_map |-> SumSeq(Tup([s \in 1..Len(z) |-> Mul(weights[s], z[s])]))]

\* lines 446-476 for one ray, given the noise of each of its samples
Raw2OutputsRay(raw, z, d, noise, white_bkgd) ==
    Maps(Tup([s \in 1..Len(z) |-> Tup([c \in 1..3 |-> Sigmoid(raw[s][c])])]),
         Weights(Alpha(raw, z, d, noise)), z, white_bkgd)

\* the noise of every sample of ray r
NoiseRow(raw_noise_std, pytest, g, r, nsamp) ==
    Tup([s \in 1..nsamp |-> Noise(raw_noise_std, pytest, g, r, s, nsamp)])

\* raw2outputs on a batch: one record per ray, and the generators afterwards
raw2outputs(raw, z_vals, rays_d, raw_noise_std, white_bkgd, pytest, g) ==
    LET nsamp == IF Len(z_vals) = 0 THEN 0 ELSE Len(z_vals[1])
    IN  [out |-> Tup([r \in 1..Len(z_vals) |->
                    Raw2OutputsRay(raw[r], z_vals[r], rays_d[r],
                        NoiseRow(raw_noise_std, pytest, g, r, nsamp), white_bkgd)]),
         rng |-> NoiseRng(raw_noise_std, pytest, g, Len(z_vals) * nsamp)]

-----------------------------------------------------------------------------
(* The field and its query adapter.  The field (the NeRF networks) is an   *)
(* external collaborator: a pure function of the queried point, the view   *)
(* direction and the network it is asked of.  scene selects one of a few   *)
(* such functions; scene 0 is empty space.                                 *)

\* the colour logits the field chooses among
Palette == << <<1, -1, -1>>, <<0, 0, 0>>, <<-1, 1, 1>> >>

HalfUnits(x) == x \div (ONE \div 2)

\* the output of network net for the point pt seen along vd (<<>>: no
\* view direction): three colour logits and the raw density
Field(scene, net, pt, vd) ==
    LET h == HalfUnits(pt[1]) + HalfUnits(pt[2]) + HalfUnits(pt[3])
        v == IF vd = <<>> THEN 0 ELSE 1 + HalfUnits(vd[1])
        n == IF net = "network_fine" THEN 1 ELSE 0
    IN  Palette[((h + v + n) % 3) + 1]
            \o << IF scene = 0 THEN 0 ELSE ((h + n + scene) % 3) - 1 >>

\* inputs[i : i + chunk]
Slice(s, from, n) == SubSeq(s, from + 1, IF from + n > Len(s) THEN Len(s) ELSE from + n)

\* a variant of Cat that puts the later parts first
RECURSIVE CatReversed(_)
CatReversed(parts) ==
    IF parts = <<>> THEN <<>> ELSE CatReversed(Tail(parts)) \o Head(parts)

\* torch.cat(parts, 0)
RECURSIVE Cat(_)
Cat(parts) == IF parts = <<>> THEN <<>> ELSE Head(parts) \o Cat(Tail(parts))

\* a variant of batchify that takes every slice from the first row on
RECURSIVE batchifyFirstSlice(_, _, _)
batchifyFirstSlice(inputs, chunk, from) ==
    IF chunk = <<>> THEN <<inputs>>
    ELSE IF from >= Len(inputs) THEN <<>>
    ELSE <<Slice(inputs, 0, chunk[1])>> \o batchifyFirstSlice(inputs, chunk, from + chunk[1])

\* batchify, lines 32-42: the slices inputs[i : i + chunk] that fn is applied
\* to, for i in range(from, inputs.shape[0], chunk); the whole of inputs when
\* chunk is None.  chunk is <<>> for None and <<n>> for the number n, which
\* is positive.
RECURSIVE batchify(_, _, _)
batchify(inputs, chunk, from) ==
    IF chunk = <<>> THEN <<inputs>>
    ELSE IF from >= Len(inputs) THEN <<>>
    ELSE <<Slice(inputs, from, chunk[1])>> \o batchify(inputs, chunk, from + chunk[1])

\* lines 47-54: the flattened rows, each a point with the view direction of
\* its ray (<<>> when there are no view directions)
Embedded(inputs, viewdirs, nsamp) ==
    Tup([x \in 1..(Len(inputs) * nsamp) |->
        << inputs[((x - 1) \div nsamp) + 1][((x - 1) % nsamp) + 1],
           IF viewdirs = <<>> THEN <<>> ELSE viewdirs[((x - 1) \div nsamp) + 1] >>])

\* fn applied to a slice of rows
FieldRows(scene, fn, rows) ==
    Tup([x \in 1..Len(rows) |-> Field(scene, fn, rows[x][1], rows[x][2])])

\* line 56 and line 37: the outputs of the slices, concatenated
OutputsFlat(scene, fn, slices) ==
    Cat(Tup([j \in 1..Len(slices) |-> FieldRows(scene, fn, slices[j])]))

\* lines 57-59: outputs_flat reshaped to [rays, samples, channels]
Unflatten(outputs_flat, n, nsamp) ==
    Tup([r \in 1..n |-> Tup([s \in 1..nsamp |-> outputs_flat[(r - 1) * nsamp + s]])])

\* the number of samples of every ray of inputs
SamplesOf(inputs) == IF Len(inputs) = 0 THEN 0 ELSE Len(inputs[1])

\* run_network, lines 45-60: the points of every ray are flattened, the
\* network is applied to slices of at most netchunk rows, each row with the
\* view direction of its ray, and the outputs are reshaped to
\* [rays, samples, channels]
run_network(scene, inputs, viewdirs, fn, netchunk) ==
    Unflatten(OutputsFlat(scene, fn,
                    batchify(Embedded(inputs, viewdirs, SamplesOf(inputs)), netchunk, 0)),
              Len(inputs), SamplesOf(inputs))

\* the sizes of the slices the network is applied to by run_network
SliceSizes(inputs, viewdirs, netchunk) ==
    Tup([j \in 1..Len(batchify(Embedded(inputs, viewdirs, SamplesOf(inputs)), netchunk, 0)) |->
        Len(batchify(Embedded(inputs, viewdirs, SamplesOf(inputs)), netchunk, 0)[j])])

-----------------------------------------------------------------------------
(* The sample scheduler *)

\* torch.linspace(0, 1, steps=n)
Linspace(n) == Tup([j \in 1..n |-> IF n = 1 THEN 0 ELSE ((j - 1) * ONE) \div (n - 1)])

\* a variant of CoarseZ whose t_vals are rounded down to whole numbers
CoarseZFloor(near, far, N_samples, lindisp) ==
    Tup([s \in 1..N_samples |-> IF s < N_samples THEN near ELSE far])

\* lines 530-534: the coarse depths of a ray between near and far
CoarseZ(near, far, N_samples, lindisp) ==
    LET t_vals == Linspace(N_samples)
    IN  Tup([s \in 1..N_samples |->
            IF ~lindisp
            THEN Mul(near, ONE - t_vals[s]) + Mul(far, t_vals[s])
            ELSE FRecip(Mul(FRecip(near), ONE - t_vals[s]) + Mul(FRecip(far), t_vals[s]))])

\* 0.5 * (z[..., 1:] + z[..., :-1])
Mids(z) == Tup([s \in 1..(Len(z) - 1) |-> (z[s + 1] + z[s]) \div 2])

\* a variant of Stratify that jitters every sample between its own depth and
\* the next one
StratifyFromSample(z, t_rand) ==
    Tup([s \in 1..Len(z) |->
        z[s] + Mul((IF s < Len(z) THEN z[s + 1] ELSE z[s]) - z[s], t_rand[s])])

\* lines 539-552: the stratified samples of a ray, t_rand in [0, 1) per sample
Stratify(z, t_rand) ==
    LET upper == Mids(z) \o <<z[Len(z)]>>
        lower == <<z[1]>> \o Mids(z)
    IN  Tup([s \in 1..Len(z) |-> lower[s] + Mul(upper[s] - lower[s], t_rand[s])])

\* lines 544-550: t_rand of sample s of ray r, from the generators in state g
TRand(pytest, g, r, s, nsamp) ==
    IF pytest
    THEN Uniform(Draw(NumpySeq, 0, (r - 1) * nsamp + (s - 1)))
    ELSE Uniform(Draw(TorchSeq, g.torch, (r - 1) * nsamp + (s - 1)))

\* the generators after lines 544-550 have drawn n values
TRandRng(pytest, g, n) ==
    [torch |-> Advance(TorchSeq, g.torch, n),
     np |-> IF pytest THEN Advance(NumpySeq, 0, n) ELSE g.np,
     drawn |-> g.drawn + (IF pytest THEN 2 * n ELSE n)]

\* torch.sort(z, -1): insertion of x into the ascending sequence s
RECURSIVE InsertSorted(_, _)
InsertSorted(x, s) ==
    IF s = <<>> THEN <<x>>
    ELSE IF x <= Head(s) THEN <<x>> \o s
    ELSE <<Head(s)>> \o InsertSorted(x, Tail(s))

RECURSIVE Sort(_)
Sort(s) == IF s = <<>> THEN <<>> ELSE InsertSorted(Head(s), Sort(Tail(s)))

\* torch.std(x, dim=-1, unbiased=False)
Std(x) ==
    LET mean == SumSeq(x) \div Len(x)
        var == SumSeq(Tup([j \in 1..Len(x) |-> Mul(x[j] - mean, x[j] - mean)])) \div Len(x)
    IN  Isqrt(var * ONE)

\* the prefix sums of s
RECURSIVE CumSum(_)
CumSum(s) ==
    IF Len(s) <= 1 THEN s
    ELSE LET c == CumSum(SubSeq(s, 1, Len(s) - 1))
         IN  Append(c, c[Len(c)] + s[Len(s)])

\* sample_pdf: the probability of every bin (uniform when the weights sum to
\* nothing)
Pdf(weights) ==
    Tup([b \in 1..Len(weights) |->
        IF SumSeq(weights) <= 0 THEN ONE \div Len(weights)
        ELSE (weights[b] * ONE) \div SumSeq(weights)])

\* sample_pdf: the number of CDF entries that are <= x (searchsorted, right)
Inds(cdf, x) == Cardinality({b \in 1..Len(cdf) : cdf[b] <= x})

\* sample_pdf: the depth at CDF value x, between the entries below and above
Interpolate(bins, cdf, x, below, above) ==
    IF cdf[above] - cdf[below] <= 0 THEN bins[below]
    ELSE bins[below] + ((x - cdf[below]) * (bins[above] - bins[below]))
                            \div (cdf[above] - cdf[below])

\* sample_pdf: the depths at the CDF values u
InvertCdf(bins, cdf, u) ==
    Tup([j \in 1..Len(u) |->
        Interpolate(bins, cdf, u[j],
            IF Inds(cdf, u[j]) < 1 THEN 1 ELSE Inds(cdf, u[j]),
            IF Inds(cdf, u[j]) + 1 > Len(cdf) THEN Len(cdf) ELSE Inds(cdf, u[j]) + 1)])

\* sample_pdf for one ray: N_samples depths drawn from the piecewise-constant
\* density that weights put on the bins, u[j] in [0, 1] being the CDF value of
\* sample j
SamplePdfRay(bins, weights, u) == InvertCdf(bins, <<0>> \o CumSum(Pdf(weights)), u)

\* the CDF values of the fine samples of ray r: evenly spaced when det, else
\* uniform draws (from numpy's reseeded generator when pytest)
SampleU(N_samples, det, pytest, g, r) ==
    IF det THEN Linspace(N_samples)
    ELSE Tup([j \in 1..N_samples |->
            IF pytest
            THEN Uniform(Draw(NumpySeq, 0, (r - 1) * N_samples + (j - 1)))
            ELSE Uniform(Draw(TorchSeq, g.torch, (r - 1) * N_samples + (j - 1)))])

\* the generators after sample_pdf has drawn for n rays
SampleRng(N_samples, det, pytest, g, n) ==
    IF det THEN (IF pytest THEN [g EXCEPT !.np = 0] ELSE g)
    ELSE IF pytest
    THEN [g EXCEPT !.np = Advance(NumpySeq, 0, n * N_samples), !.drawn = @ + n * N_samples]
    ELSE [g EXCEPT !.torch = Advance(TorchSeq, g.torch, n * N_samples),
                   !.drawn = @ + n * N_samples]

-----------------------------------------------------------------------------
(* render_rays, lines 479-604.  ray_batch is a sequence of ray records,    *)
(* each a sequence of numbers; kw holds the keyword arguments.             *)

MapKeys == {"rgb_map", "disp_map", "acc_map", "depth_map"}
CoarseKeys == {"rgb0", "disp0", "acc0", "depth0", "z_std"}
\* the order in which render_rays inserts its keys (lines 590-598)
KeyOrder == <<"rgb_map", "disp_map", "acc_map", "depth_map", "raw",
              "rgb0", "disp0", "acc0", "depth0", "z_std">>

\* columns a..b of a record (Python slicing: columns that do not exist are dropped)
Cols(row, a, b) == SubSeq(row, a, IF b > Len(row) THEN Len(row) ELSE b)

\* lines 527-528: ray_batch[..., 6:8] reshaped to [-1, 1, 2]; near and far
\* are the two columns of the result
BoundsFlat(ray_batch) ==
    LET w == Len(Cols(ray_batch[1], 7, 8))
    IN  Tup([x \in 1..(Len(ray_batch) * w) |->
            ray_batch[((x - 1) \div w) + 1][7 + ((x - 1) % w)]])

\* lines 554-556: the points of a ray at the depths z
Points(o, d, z) == Tup([s \in 1..Len(z) |-> Tup([c \in 1..3 |-> o[c] + Mul(d[c], z[s])])])

\* torch.isnan(v).any() or torch.isinf(v).any() for the value of key k
Unhealthy(k, v) ==
    IF k \in {"rgb_map", "rgb0"}
    THEN \E r \in DOMAIN v : \E c \in DOMAIN v[r] : IsNanOrInf(v[r][c])
    ELSE IF k = "raw"
    THEN \E r \in DOMAIN v : \E x \in DOMAIN v[r] : \E c \in DOMAIN v[r][x] :
            IsNanOrInf(v[r][x][c])
    ELSE \E r \in DOMAIN v : IsNanOrInf(v[r])

\* lines 600-602 from key j of ret on: the keys that hold a NaN or an Inf,
\* printed when flag is true
RECURSIVE Report(_, _, _)
Report(ret, flag, j) ==
    IF j > Len(KeyOrder) THEN <<>>
    ELSE (IF KeyOrder[j] \in DOMAIN ret /\ Unhealthy(KeyOrder[j], ret[KeyOrder[j]]) /\ flag
          THEN <<KeyOrder[j]>> ELSE <<>>) \o Report(ret, flag, j + 1)

\* a variant of HealthReport that prints whether DEBUG is on or off
HealthReportAlways(ret, debug) == Report(ret, TRUE, 1)

\* lines 600-602: the keys the numerical-health check prints, in order
HealthReport(ret, debug) == Report(ret, debug, 1)

\* lines 590-598: the dictionary render_rays returns
RetDict(final, coarse, raw, z_samples, retraw, N_importance) ==
    [k \in MapKeys |-> Tup([r \in DOMAIN final |-> final[r][k]])]
    @@ (IF retraw THEN [k \in {"raw"} |-> raw] ELSE [k \in {} |-> 0])
    @@ (IF N_importance > 0
        THEN [k \in CoarseKeys |->
                Tup([r \in DOMAIN coarse |->
                    IF k = "rgb0" THEN coarse[r].rgb_map
                    ELSE IF k = "disp0" THEN coarse[r].disp_map
                    ELSE IF k = "acc0" THEN coarse[r].acc_map
                    ELSE IF k = "depth0" THEN coarse[r].depth_map
                    ELSE Std(z_samples[r])])]
        ELSE [k \in {} |-> 0])

RenderRaysFailure(kind, g) ==
    [err |-> kind, ret |-> [k \in {} |-> 0], rng |-> g, steps |-> <<>>, queries |-> <<>>,
     pdf |-> <<>>, z_samples |-> <<>>, printed |-> <<>>, coarse |-> <<>>, fine |-> <<>>]

\* line 526: the last three columns when the record is wider than 8, else None
ViewDirs(ray_batch) ==
    IF Len(ray_batch[1]) > 8
    THEN Tup([r \in 1..Len(ray_batch) |->
            SubSeq(ray_batch[r], Len(ray_batch[r]) - 2, Len(ray_batch[r]))])
    ELSE <<>>

\* a variant of Perturb that jitters whatever perturb is
PerturbAlways(z_vals, kw, g) ==
    Tup([r \in 1..Len(z_vals) |->
        Stratify(z_vals[r], Tup([s \in 1..kw.N_samples |->
            TRand(kw.pytest, g, r, s, kw.N_samples)]))])

\* lines 538-552: the coarse depths after the stratified jitter
Perturb(z_vals, kw, g) ==
    IF kw.perturb > 0
    THEN Tup([r \in 1..Len(z_vals) |->
            Stratify(z_vals[r], Tup([s \in 1..kw.N_samples |->
                TRand(kw.pytest, g, r, s, kw.N_samples)]))])
    ELSE z_vals

\* the generators after lines 538-552
PerturbRng(kw, g, N_rays) ==
    IF kw.perturb > 0 THEN TRandRng(kw.pytest, g, N_rays * kw.N_samples) ELSE g

\* lines 554-556 and 579-580: the points of every ray
AllPoints(rays_o, rays_d, z_vals) ==
    Tup([r \in 1..Len(z_vals) |-> Points(rays_o[r], rays_d[r], z_vals[r])])

\* network_query_fn, lines 355-362: the query of network net at the points
\* pts, with what run_network did: the sizes of the slices it applied net to
NetworkQuery(scene, pts, viewdirs, net, kw) ==
    [net |-> net, pts |-> pts,
     raw |-> run_network(scene, pts, viewdirs, net, kw.netchunk),
     slices |-> SliceSizes(pts, viewdirs, kw.netchunk)]

\* what one pass leaves behind: the query q, the depths z_vals given to the
\* integrator, the integrator's outputs and the generators
PassRecord(q, z_vals, o) ==
    [net |-> q.net, pts |-> q.pts, raw |-> q.raw, slices |-> q.slices,
     z |-> z_vals, out |-> o.out, rng |-> o.rng]

\* lines 561-562 and 587-588: the integration of the field's answers
Integrate(q, z_vals, rays_d, kw, g) ==
    PassRecord(q, z_vals,
        raw2outputs(q.raw, z_vals, rays_d, kw.raw_noise_std, kw.white_bkgd, kw.pytest, g))

\* lines 554-562 and 579-588: one pass, the query of network net at the points
\* of the depths z_vals and the integration of its answers
Pass(scene, rays_o, rays_d, viewdirs, z_vals, net, kw, g) ==
    Integrate(NetworkQuery(scene, AllPoints(rays_o, rays_d, z_vals), viewdirs, net, kw),
              z_vals, rays_d, kw, g)

\* a variant of PdfArgs that passes the leading weights instead of the
\* interior ones
PdfArgsLeadingWeights(p0, kw) ==
    [bins |-> Tup([r \in 1..Len(p0.z) |-> Mids(p0.z[r])]),
     weights |-> Tup([r \in 1..Len(p0.z) |-> SubSeq(p0.out[r].weights, 1, kw.N_samples - 2)]),
     N_samples |-> kw.N_importance, det |-> (kw.perturb = 0), pytest |-> kw.pytest]

\* lines 567-574: the arguments of the call of sample_pdf: z_vals_mid,
\* weights[..., 1:-1], N_importance, det and pytest
PdfArgs(p0, kw) ==
    [bins |-> Tup([r \in 1..Len(p0.z) |-> Mids(p0.z[r])]),
     weights |-> Tup([r \in 1..Len(p0.z) |-> SubSeq(p0.out[r].weights, 2, kw.N_samples - 1)]),
     N_samples |-> kw.N_importance, det |-> (kw.perturb = 0), pytest |-> kw.pytest]

\* sample_pdf(bins, weights, N_samples, det, pytest) with the generators in
\* state g: N_samples depths per ray
sample_pdf(a, g) ==
    Tup([r \in 1..Len(a.bins) |->
        SamplePdfRay(a.bins[r], a.weights[r], SampleU(a.N_samples, a.det, a.pytest, g, r))])

\* lines 568-575: the importance samples of every ray, from the coarse pass p0
ImportanceSamples(p0, kw) == sample_pdf(PdfArgs(p0, kw), p0.rng)

\* a variant of MergeDepths that keeps one of every group of equal depths
MergeDistinct(z_vals, z_samples) ==
    Tup([r \in 1..Len(z_vals) |->
        Sort(z_vals[r] \o SelectSeq(z_samples[r],
            LAMBDA x : \A s \in 1..Len(z_vals[r]) : z_vals[r][s] # x))])

\* line 577: torch.sort(torch.cat([z_vals, z_samples], -1), -1)
MergeDepths(z_vals, z_samples) ==
    Tup([r \in 1..Len(z_vals) |-> Sort(z_vals[r] \o z_samples[r])])

\* a variant of RunFn that always takes the coarse network
RunFnCoarse(kw) == "network_fn"

\* line 582: run_fn = network_fn if network_fine is None else network_fine
RunFn(kw) == IF kw.network_fine = "none" THEN "network_fn" ELSE "network_fine"

\* the steps of render_rays in the order of lines 559-588: every pass queries
\* and integrates, and sample_pdf comes before every pass but the first
RECURSIVE Steps(_)
Steps(n) ==
    IF n = 0 THEN <<>>
    ELSE Steps(n - 1) \o (IF n > 1 THEN <<"sample_pdf">> ELSE <<>>)
                      \o <<"network_query_fn", "raw2outputs">>

\* lines 590-604: the returned dictionary with the health report, and what the
\* call did: its steps, the queries and integrations of its passes, and the
\* call of sample_pdf with its result
Returned(ret, passes, z_samples, kw, debug) ==
    [err |-> "none",
     ret |-> ret,
     rng |-> passes[Len(passes)].rng,
     steps |-> Steps(Len(passes)),
     queries |-> Tup([p \in 1..Len(passes) |->
                    [net |-> passes[p].net, pts |-> passes[p].pts, raw |-> passes[p].raw,
                     slices |-> passes[p].slices, z |-> passes[p].z]]),
     pdf |-> IF Len(passes) > 1 THEN <<PdfArgs(passes[1], kw)>> ELSE <<>>,
     z_samples |-> z_samples,
     printed |-> HealthReport(ret, debug),
     coarse |-> passes[1].out,
     fine |-> IF Len(passes) > 1 THEN passes[2].out ELSE <<>>]

\* a variant of Finish that takes the maps from the first pass
FinishCoarse(passes, z_samples, kw, debug) ==
    Returned(RetDict(passes[1].out, passes[1].out, passes[Len(passes)].raw,
                     z_samples, kw.retraw, kw.N_importance),
             passes, z_samples, kw, debug)

\* lines 590-598 after the passes made: the last pass gives the maps and raw,
\* the first one the coarse entries
Finish(passes, z_samples, kw, debug) ==
    Returned(RetDict(passes[Len(passes)].out, passes[1].out, passes[Len(passes)].raw,
                     z_samples, kw.retraw, kw.N_importance),
             passes, z_samples, kw, debug)

\* lines 577-588: the fine pass at the merged depths
FinePass(rays_o, rays_d, viewdirs, p0, z_samples, kw, debug, scene) ==
    Finish(<<p0, Pass(scene, rays_o, rays_d, viewdirs, MergeDepths(p0.z, z_samples),
                      RunFn(kw), kw,
                      SampleRng(kw.N_importance, kw.perturb = 0, kw.pytest, p0.rng, Len(p0.z)))>>,
           z_samples, kw, debug)

\* lines 564-588: if N_importance > 0, the importance samples and the fine pass
Hierarchical(rays_o, rays_d, viewdirs, p0, kw, debug, scene) ==
    IF kw.N_importance > 0
    THEN FinePass(rays_o, rays_d, viewdirs, p0, ImportanceSamples(p0, kw), kw, debug, scene)
    ELSE Finish(<<p0>>, <<>>, kw, debug)

\* lines 554-604, given the rays' parts, the coarse depths and the generators
RenderRaysPasses(rays_o, rays_d, viewdirs, z_vals, kw, debug, scene, g) ==
    Hierarchical(rays_o, rays_d, viewdirs,
                 Pass(scene, rays_o, rays_d, viewdirs, z_vals, "network_fn", kw, g),
                 kw, debug, scene)

\* lines 538-604, once the depths z0 of every ray are laid out
RenderRaysBody(ray_batch, z0, kw, debug, scene, g) ==
    RenderRaysPasses(Tup([r \in 1..Len(ray_batch) |-> Cols(ray_batch[r], 1, 3)]),
                     Tup([r \in 1..Len(ray_batch) |-> Cols(ray_batch[r], 4, 6)]),
                     ViewDirs(ray_batch),
                     Perturb(z0, kw, g), kw, debug, scene,
                     PerturbRng(kw, g, Len(ray_batch)))

\* render_rays: lines 524-536 lay out near, far and the coarse depths and fail
\* when the shapes do not fit; then the body above
render_rays(ray_batch, kw, debug, scene, g) ==
    LET N_rays == Len(ray_batch)
        flat == BoundsFlat(ray_batch)
        nb == Len(flat) \div 2
        z_b == Tup([b \in 1..nb |->
                    CoarseZ(flat[2 * b - 1], flat[2 * b], kw.N_samples, kw.lindisp)])
    IN  IF Len(flat) % 2 # 0
        THEN RenderRaysFailure("RuntimeError", g)        \* line 527: reshape
        ELSE IF nb # N_rays /\ nb # 1
        THEN RenderRaysFailure("RuntimeError", g)        \* line 536: expand
        ELSE RenderRaysBody(ray_batch,
                            Tup([r \in 1..N_rays |-> IF nb = 1 THEN z_b[1] ELSE z_b[r]]),
                            kw, debug, scene, g)

-----------------------------------------------------------------------------
(* render and batchify_rays, lines 63-154, called with ndc = False, on a    *)
(* provided ray batch (c2w is None) or on the rays of a camera (c2w given), *)
(* with or without a static camera (c2w_staticcam).                        *)

\* the batches of lo..hi rays that alternate between the two rays, starting
\* with either
Batches(lo, hi) ==
    { Tup([j \in 1..n |->
              << [o |-> <<0, 0, 0>>, d |-> <<0, 0, ONE>>],
                 [o |-> <<0, 0, ONE \div 2>>, d |-> <<2 * ONE, 0, 0>>] >>[((j + k) % 2) + 1]]) :
        n \in lo..hi, k \in 0..1 }

Randomness ==
    { [perturb |-> p, raw_noise_std |-> n, pytest |-> t] :
        p \in {0, ONE}, n \in {0, NoiseStd}, t \in BOOLEAN }

\* N_importance and network_fine: create_nerf builds a fine network exactly
\* when N_importance > 0 (lines 335-346); render_rays also accepts none
\* (network_fine=None is its default, line 488)
FineCfg == { <<0, "none">>, <<NImportance, "network_fine">>, <<NImportance, "none">> }

Kwargs(rand, nf, retraw, white_bkgd) ==
    [N_samples |-> NSamples, N_importance |-> nf[1], network_fine |-> nf[2],
     perturb |-> rand.perturb, raw_noise_std |-> rand.raw_noise_std,
     pytest |-> rand.pytest, retraw |-> retraw, white_bkgd |-> white_bkgd,
     lindisp |-> FALSE, netchunk |-> <<1024 * 64>>]

\* a call of render on a provided batch of rays, and the state g of the
\* generators when it is made; sh holds the leading dimensions of rays_d
\* (line 129, sh[:-1])
\* c2w and c2w_staticcam are <<>> (None) or hold one camera pose
RenderCall(rays, chunk, use_viewdirs, scene, kw, g) ==
    [fn |-> "render", rays |-> rays, sh |-> <<Len(rays)>>, chunk |-> chunk,
     c2w |-> <<>>, c2w_staticcam |-> <<>>,
     near |-> 2 * ONE, far |-> 6 * ONE,
     use_viewdirs |-> use_viewdirs, scene |-> scene, kw |-> kw, rng |-> g]

\* camera poses (camera-to-world transforms): a rotation R and a position t.
\* CamFront looks down the -z axis from the origin; the other pose is turned
\* a quarter turn about the y axis and stands elsewhere
CamFront == [R |-> << <<1, 0, 0>>, <<0, 1, 0>>, <<0, 0, 1>> >>, t |-> <<0, 0, 0>>]
Poses ==
    { CamFront,
      [R |-> << <<0, 0, 1>>, <<0, 1, 0>>, <<0 - 1, 0, 0>> >>, t |-> <<ONE, 0, ONE \div 2>>] }

\* the direction of pixel (h, w) in the camera's frame
PixelDir(h, w) == <<(w - 1) * (ONE \div 2), 0 - (h - 1) * (ONE \div 2), 0 - ONE>>

\* get_rays(H, W, K, c2w): one ray per pixel, row h and column w of the image,
\* all from the camera's position, each with the direction of its pixel
\* rotated into the world frame
get_rays(H, W, c2w) ==
    Tup([h \in 1..H |-> Tup([w \in 1..W |->
        [o |-> c2w.t,
         d |-> Tup([c \in 1..3 |->
                  PixelDir(h, w)[1] * c2w.R[c][1] + PixelDir(h, w)[2] * c2w.R[c][2]
                      + PixelDir(h, w)[3] * c2w.R[c][3]])]])])

\* the image sizes H x W of at most MaxRays + 1 pixels
FrameShapes ==
    { hw \in (1..(MaxRays + 1)) \X (1..(MaxRays + 1)) : hw[1] * hw[2] <= MaxRays + 1 }

\* deterministic full-frame renders (c2w given, lines 113-115) of an H x W
\* image: no rays are provided
FrameCalls ==
    { [RenderCall(<<>>, chunk, uv, 1,
                  [Kwargs([perturb |-> 0, raw_noise_std |-> 0, pytest |-> FALSE], nf, TRUE, FALSE)
                      EXCEPT !.netchunk = nc],
                  Seeded) EXCEPT !.sh = hw, !.c2w = <<CamFront>>] :
        hw \in FrameShapes, chunk \in {1, MaxChunk}, uv \in BOOLEAN,
        nf \in {<<0, "none">>, <<NImportance, "network_fine">>,
                <<NImportance + 1, "network_fine">>},
        nc \in { <<2>>, <<MaxChunk + 2>>, <<>> } }

\* deterministic full-frame renders with a static camera
StaticCamCalls ==
    { [RenderCall(<<>>, MaxChunk, uv, 1,
                  Kwargs([perturb |-> 0, raw_noise_std |-> 0, pytest |-> FALSE],
                         <<0, "none">>, FALSE, FALSE),
                  Seeded) EXCEPT !.sh = hw, !.c2w = <<c>>, !.c2w_staticcam = <<sc>>] :
        hw \in FrameShapes, uv \in BOOLEAN, c \in Poses, sc \in Poses }

\* calls that vary the batch, the chunk size and the sources of randomness
ChunkingCalls ==
    { RenderCall(rays, chunk, FALSE, 1, Kwargs(rand, nf, FALSE, FALSE), Seeded) :
        rays \in Batches(0, MaxRays), chunk \in (0 - 1)..MaxChunk,
        rand \in Randomness, nf \in FineCfg }

\* deterministic calls that vary the scene and what is returned and reported
OutputCalls ==
    { RenderCall(rays, chunk, uv, scene,
                 Kwargs([perturb |-> 0, raw_noise_std |-> 0, pytest |-> FALSE], nf, retraw, FALSE),
                 g) :
        rays \in Batches(1, MaxRays - 1), chunk \in {1, MaxChunk}, uv \in BOOLEAN,
        scene \in 0..2, nf \in FineCfg, retraw \in BOOLEAN, g \in RngStates }

\* train has not been called
NoTraining ==
    /\ heap = <<>>
    /\ render_kwargs_train = 0
    /\ render_kwargs_test = 0
    /\ start = 0
    /\ global_step = 0
    /\ iter = 0
    /\ i_batch = 0
    /\ rays_rgb = <<>>
    /\ optimizer = 0
    /\ ckpts = <<>>
    /\ epoch = <<>>
    /\ last_epoch = <<>>
    /\ rendered = <<>>
    /\ runs = 0

Init ==
    /\ pc = "render"
    /\ NoTraining
    /\ \/ inp \in ChunkingCalls /\ DEBUG = FALSE
       \/ inp \in OutputCalls /\ DEBUG \in BOOLEAN
       \/ inp \in FrameCalls /\ DEBUG = FALSE
       \/ inp \in StaticCamCalls /\ DEBUG = FALSE
    /\ rng = inp.rng
    /\ rays_flat = <<>>
    /\ i = 0
    /\ all_ret = [k \in {} |-> 0]
    /\ calls = <<>>
    /\ printed = <<>>
    /\ trace = <<>>
    /\ error = "none"
    /\ result = <<>>

\* lines 126-127: viewdirs / norm(viewdirs)
Normalize(v) == LET n == Norm3(v) IN Tup([c \in 1..3 |-> FDiv(v[c], n)])

\* lines 113-118: the rays of the camera c2w, or the provided rays
CameraRays(call) ==
    IF call.c2w # <<>> THEN get_rays(call.sh[1], call.sh[2], call.c2w[1]) ELSE call.rays

\* a variant of MarchedRays that takes the rays of the static camera whenever
\* one is given
MarchedRaysStatic(call) ==
    IF call.c2w_staticcam # <<>>
    THEN get_rays(call.sh[1], call.sh[2], call.c2w_staticcam[1])
    ELSE CameraRays(call)

\* lines 120-125: the rays that are marched: with use_viewdirs and a static
\* camera, those of the static camera, origins and directions alike
MarchedRays(call) ==
    IF call.use_viewdirs /\ call.c2w_staticcam # <<>>
    THEN get_rays(call.sh[1], call.sh[2], call.c2w_staticcam[1])
    ELSE CameraRays(call)

\* lines 120-144: the ray records, one per ray: origin, direction, near, far
\* and, with use_viewdirs, the unit view direction; viewdirs holds the rays
\* whose directions are the view directions (line 122)
RayRecords(rays, viewdirs, near, far, use_viewdirs) ==
    Tup([r \in 1..Len(rays) |->
        rays[r].o \o rays[r].d \o <<near, far>>
            \o (IF use_viewdirs THEN Normalize(viewdirs[r].d) ELSE <<>>)])

\* lines 127 and 135-136: torch.reshape(x, [-1, 3]), the rows of x in
\* row-major order; sh holds the leading dimensions of x
Flatten(x, sh) ==
    IF Len(sh) = 1 THEN x
    ELSE Tup([p \in 1..(sh[1] * sh[2]) |-> x[((p - 1) \div sh[2]) + 1][((p - 1) % sh[2]) + 1]])

RenderSetup ==
    /\ pc = "render"
    /\ rays_flat' = RayRecords(Flatten(MarchedRays(inp), inp.sh),
                               Flatten(CameraRays(inp), inp.sh),
                               inp.near, inp.far, inp.use_viewdirs)
    /\ trace' = Append(trace, "rays")
    /\ pc' = "batchify"
    /\ UNCHANGED <<inp, DEBUG, rng, i, all_ret, calls, printed, error, result>>
    /\ UNCHANGED trainVars

\* a variant of BatchifyRangeError in which range() refuses every step that
\* is not positive
BatchifyRangeErrorNonPositive ==
    /\ pc = "batchify"
    /\ inp.chunk <= 0
    /\ error' = "ValueError"
    /\ pc' = "failed"
    /\ UNCHANGED <<inp, DEBUG, rng, rays_flat, i, all_ret, calls, printed, trace, result>>
    /\ UNCHANGED trainVars

\* line 66: range(0, N, 0) raises ValueError
BatchifyRangeError ==
    /\ pc = "batchify"
    /\ inp.chunk = 0
    /\ error' = "ValueError"
    /\ pc' = "failed"
    /\ UNCHANGED <<inp, DEBUG, rng, rays_flat, i, all_ret, calls, printed, trace, result>>
    /\ UNCHANGED trainVars

\* lines 68-71: the values of ret appended to the lists of all_ret
Collect(acc, ret) ==
    [k \in DOMAIN acc \cup DOMAIN ret |->
        IF k \in DOMAIN ret
        THEN (IF k \in DOMAIN acc THEN acc[k] ELSE <<>>) \o <<ret[k]>>
        ELSE acc[k]]

\* a variant of BatchifyChunk whose loop advances by one ray
BatchifyChunkStepOne ==
    /\ pc = "batchify"
    /\ inp.chunk > 0
    /\ i < Len(rays_flat)
    /\ \E r \in {render_rays(Slice(rays_flat, i, inp.chunk), inp.kw, DEBUG, inp.scene, rng)} :
           /\ calls' = Append(calls, [start |-> i, rays |-> Slice(rays_flat, i, inp.chunk), ret |-> r.ret,
                                      steps |-> r.steps, queries |-> r.queries,
                                      pdf |-> r.pdf, z_samples |-> r.z_samples,
                                      coarse |-> r.coarse, fine |-> r.fine, err |-> r.err])
           /\ rng' = r.rng
           /\ printed' = printed \o r.printed
           /\ trace' = Append(trace, "render_rays")
           /\ IF r.err = "none"
              THEN /\ all_ret' = Collect(all_ret, r.ret)
                   /\ i' = i + 1
                   /\ UNCHANGED <<pc, error>>
              ELSE /\ error' = r.err
                   /\ pc' = "failed"
                   /\ UNCHANGED <<all_ret, i>>
    /\ UNCHANGED <<inp, DEBUG, rays_flat, result>>
    /\ UNCHANGED trainVars

\* lines 66-71: one iteration of the loop of batchify_rays
BatchifyChunk ==
    /\ pc = "batchify"
    /\ inp.chunk > 0
    /\ i < Len(rays_flat)
    /\ \E r \in {render_rays(Slice(rays_flat, i, inp.chunk), inp.kw, DEBUG, inp.scene, rng)} :
           /\ calls' = Append(calls, [start |-> i, rays |-> Slice(rays_flat, i, inp.chunk), ret |-> r.ret,
                                      steps |-> r.steps, queries |-> r.queries,
                                      pdf |-> r.pdf, z_samples |-> r.z_samples,
                                      coarse |-> r.coarse, fine |-> r.fine, err |-> r.err])
           /\ rng' = r.rng
           /\ printed' = printed \o r.printed
           /\ trace' = Append(trace, "render_rays")
           /\ IF r.err = "none"
              THEN /\ all_ret' = Collect(all_ret, r.ret)
                   /\ i' = i + inp.chunk
                   /\ UNCHANGED <<pc, error>>
              ELSE /\ error' = r.err
                   /\ pc' = "failed"
                   /\ UNCHANGED <<all_ret, i>>
    /\ UNCHANGED <<inp, DEBUG, rays_flat, result>>
    /\ UNCHANGED trainVars

\* lines 73-74, when the range of line 66 is exhausted (at once for chunk < 0)
BatchifyConcat ==
    /\ pc = "batchify"
    /\ \/ inp.chunk < 0
       \/ inp.chunk > 0 /\ i >= Len(rays_flat)
    /\ all_ret' = [k \in DOMAIN all_ret |-> Cat(all_ret[k])]
    /\ pc' = "reshape"
    /\ UNCHANGED <<inp, DEBUG, rng, rays_flat, i, calls, printed, trace, error, result>>
    /\ UNCHANGED trainVars

\* a variant of KExtract that leaves the maps among the extras
KExtractAll(ret) ==
    << ret["rgb_map"], ret["disp_map"], ret["acc_map"], ret["depth_map"], ret >>

\* lines 151-154: k_extract, the four maps, then the other entries as extras
KExtract(ret) ==
    << ret["rgb_map"], ret["disp_map"], ret["acc_map"], ret["depth_map"],
       [k \in DOMAIN ret \ MapKeys |-> ret[k]] >>

\* a variant of Reshape that fills the array column by column
ReshapeColumnMajor(flat, sh) ==
    IF Len(sh) = 1 THEN flat
    ELSE Tup([h \in 1..sh[1] |-> Tup([w \in 1..sh[2] |-> flat[(w - 1) * sh[1] + h]])])

\* line 149: torch.reshape(all_ret[k], list(sh[:-1]) + list(all_ret[k].shape[1:])),
\* the rows of flat laid out in row-major order over the leading dimensions sh
Reshape(flat, sh) ==
    IF Len(sh) = 1 THEN flat
    ELSE Tup([h \in 1..sh[1] |-> Tup([w \in 1..sh[2] |-> flat[(h - 1) * sh[2] + w]])])

\* lines 147-149: every value of ret reshaped
Shaped(ret) == [k \in DOMAIN ret |-> Reshape(ret[k], inp.sh)]

\* lines 147-154: every value reshaped to the leading dimensions of the ray
\* array, the four maps extracted, the rest returned as extras
RenderReturn ==
    /\ pc = "reshape"
    /\ MapKeys \subseteq DOMAIN all_ret
    /\ result' = KExtract(Shaped(all_ret))
    /\ pc' = "done"
    /\ UNCHANGED <<inp, DEBUG, rng, rays_flat, i, all_ret, calls, printed, trace, error>>
    /\ UNCHANGED trainVars

\* line 152: all_ret[k] for a key that no chunk produced raises KeyError
RenderKeyError ==
    /\ pc = "reshape"
    /\ ~(MapKeys \subseteq DOMAIN all_ret)
    /\ error' = "KeyError"
    /\ pc' = "failed"
    /\ UNCHANGED <<inp, DEBUG, rng, rays_flat, i, all_ret, calls, printed, trace, result>>
    /\ UNCHANGED trainVars

Next ==
    \/ RenderSetup
    \/ BatchifyRangeError
    \/ BatchifyChunk
    \/ BatchifyConcat
    \/ RenderReturn
    \/ RenderKeyError

Spec == Init /\ [][Next]_vars

-----------------------------------------------------------------------------
(* The integrator alone: raw2outputs applied to one ray whose samples,     *)
(* depths and noise settings are drawn from bounded sets.                  *)

\* the depths that start at z1 and advance by the gaps
RECURSIVE DepthsFrom(_, _)
DepthsFrom(z1, gaps) ==
    IF gaps = <<>> THEN <<z1>> ELSE <<z1>> \o DepthsFrom(z1 + Head(gaps), Tail(gaps))

\* the calls of raw2outputs on one ray of n samples
IntInputsOf(n) ==
    { [fn |-> "raw2outputs",
       raw |-> << Tup([s \in 1..n |-> Palette[((s + c0) % 3) + 1] \o <<sig[s]>>]) >>,
       z_vals |-> << DepthsFrom(z1, gaps) >>,
       rays_d |-> << <<0, 0, ONE>> >>,
       raw_noise_std |-> ns[1],
       white_bkgd |-> wb,
       pytest |-> ns[2]] :
         c0 \in 1..2,
         sig \in [1..n -> {-1, 0, 1, 8}],
         z1 \in {0, 2},
         gaps \in [1..(n - 1) -> {1, 2}],
         ns \in {<<0, FALSE>>, <<NoiseStd, FALSE>>, <<NoiseStd, TRUE>>},
         wb \in BOOLEAN }

InitInt ==
    /\ pc = "int_call"
    /\ NoTraining
    /\ \E n \in 1..NIntSamples : inp \in IntInputsOf(n)
    /\ DEBUG = FALSE
    /\ rng = Seeded
    /\ rays_flat = <<>>
    /\ i = 0
    /\ all_ret = <<>>
    /\ calls = <<>>
    /\ printed = <<>>
    /\ trace = <<>>
    /\ error = "none"
    /\ result = <<>>

IntegrateCall ==
    /\ pc = "int_call"
    /\ \E r \in {raw2outputs(inp.raw, inp.z_vals, inp.rays_d, inp.raw_noise_std,
                             inp.white_bkgd, inp.pytest, rng)} :
           /\ result' = r.out
           /\ rng' = r.rng
    /\ pc' = "int_done"
    /\ UNCHANGED <<inp, DEBUG, rays_flat, i, all_ret, calls, printed, trace, error>>
    /\ UNCHANGED trainVars

NextInt == IntegrateCall

SpecInt == InitInt /\ [][NextInt]_vars

\* the number of samples of the integrated ray, and the noise, the activated
\* density and the opacity of every one of them
IntSamples == Len(inp.z_vals[1])
IntNoise == NoiseRow(inp.raw_noise_std, inp.pytest, Seeded, 1, IntSamples)
IntSigma == Tup([s \in 1..IntSamples |-> Relu(inp.raw[1][s][4] + IntNoise[s])])
IntAlpha == Alpha(inp.raw[1], inp.z_vals[1], inp.rays_d[1], IntNoise)

\* C5 (as claimed): a ray whose activated density is zero at every sample
\* gets a disparity that is a finite number, neither NaN nor Inf.
C5_DisparityFinite ==
    (pc = "int_done" /\ \A s \in 1..IntSamples : IntSigma[s] = 0)
        => ~IsNanOrInf(result[1].disp_map)

\* the transmittance before sample s: the product, starting at 1, of
\* 1 - alpha[j] + 1e-10 over the samples j before s
RECURSIVE TransBefore(_, _)
TransBefore(alpha, s) ==
    IF s = 1 THEN ONE
    ELSE Mul(TransBefore(alpha, s - 1), AddEps(ONE - alpha[s - 1]))

\* C6: every weight is alpha[s] times the exclusive cumulative product of
\* 1 - alpha[j] + 1e-10, which starts at 1; every weight is >= 0 and the
\* weights of a ray (acc_map) sum to at most 1 + epsilon.
C6_WeightBound ==
    pc = "int_done" =>
        /\ \A s \in 1..IntSamples : IntAlpha[s] \in 0..ONE
        /\ \A s \in 1..IntSamples :
              /\ result[1].weights[s] >= 0
              /\ result[1].weights[s] = Mul(IntAlpha[s], TransBefore(IntAlpha, s))
        /\ result[1].acc_map = SumSeq(result[1].weights)
        /\ result[1].acc_map <= ONE + EPS

\* C6 witness: a partly transparent sample followed by a sample that still
\* receives weight, on a ray that ends opaque.
C6_Witness ==
    /\ pc = "int_done"
    /\ \E s \in 2..IntSamples :
          /\ IntAlpha[s - 1] > 0
          /\ IntAlpha[s - 1] < ONE
          /\ result[1].weights[s] > 0
    /\ result[1].acc_map >= ONE

-----------------------------------------------------------------------------
(* render_rays called on its own with ray records of any width.  The field *)
(* answers whatever query it is handed, with or without view direction.    *)

MaxWidth == 12

\* a record of MaxWidth columns: origin, direction, near, far, the unit view
\* direction, then columns that mean nothing
WideRecord(ray) ==
    ray.o \o ray.d \o <<2 * ONE, 6 * ONE>> \o Normalize(ray.d)
        \o Tup([j \in 1..(MaxWidth - 11) |-> ONE])

\* the first w columns of every ray's record
RecordsOfWidth(rays, w) ==
    Tup([r \in 1..Len(rays) |-> SubSeq(WideRecord(rays[r]), 1, w)])

DirectCalls ==
    { [fn |-> "render_rays", ray_batch |-> RecordsOfWidth(rays, w), width |-> w,
       kw |-> Kwargs([perturb |-> 0, raw_noise_std |-> 0, pytest |-> FALSE], nf, FALSE, FALSE),
       scene |-> scene, rng |-> Seeded] :
        rays \in Batches(1, MaxRays + 1), w \in 6..MaxWidth, nf \in FineCfg, scene \in 1..2 }

InitRR ==
    /\ pc = "rr_call"
    /\ NoTraining
    /\ inp \in DirectCalls
    /\ DEBUG = FALSE
    /\ rng = inp.rng
    /\ rays_flat = <<>>
    /\ i = 0
    /\ all_ret = <<>>
    /\ calls = <<>>
    /\ printed = <<>>
    /\ trace = <<>>
    /\ error = "none"
    /\ result = <<>>

\* one call of render_rays, lines 479-604
RenderRaysCall ==
    /\ pc = "rr_call"
    /\ \E r \in {render_rays(inp.ray_batch, inp.kw, DEBUG, inp.scene, rng)} :
           /\ calls' = <<[start |-> 0, rays |-> inp.ray_batch, ret |-> r.ret,
                          steps |-> r.steps, queries |-> r.queries,
                          pdf |-> r.pdf, z_samples |-> r.z_samples,
                          coarse |-> r.coarse, fine |-> r.fine, err |-> r.err]>>
           /\ rng' = r.rng
           /\ printed' = r.printed
           /\ error' = r.err
           /\ result' = r.ret
           /\ pc' = IF r.err = "none" THEN "rr_done" ELSE "rr_failed"
    /\ trace' = <<"render_rays">>
    /\ UNCHANGED <<inp, DEBUG, rays_flat, i, all_ret>>
    /\ UNCHANGED trainVars

NextRR == RenderRaysCall

SpecRR == InitRR /\ [][NextRR]_vars

\* C8 (as claimed): render_rays rejects a batch whose records are neither 8
\* nor 11 wide, and does so before any field query or integration: no such
\* batch is rendered.
C8_MalformedRejected ==
    (pc # "rr_call" /\ inp.width \notin {8, 11}) =>
        /\ pc = "rr_failed"
        /\ calls[1].queries = <<>>
        /\ calls[1].coarse = <<>>

-----------------------------------------------------------------------------
(* Claims about render and batchify_rays, checked under Spec *)

\* the render_rays calls that returned
Returns == { c \in 1..Len(calls) : calls[c].err = "none" }

\* C1 (as claimed): whatever the positive chunk size, render returns what one
\* render_rays call on the whole batch returns.
C1_ChunkInvariance ==
    pc = "done" =>
        result = KExtract(Shaped(render_rays(rays_flat, inp.kw, DEBUG, inp.scene, inp.rng).ret))

\* the index of the call whose slice holds ray r
CallOf(r) == ((r - 1) \div inp.chunk) + 1

\* C2: the slices given to render_rays are the contiguous ranges [i, i + chunk)
\* of the flat batch, every ray lies in exactly one of them, and row r of every
\* concatenated output is the row render_rays returned for ray r.
C2_OrderPreserved ==
    /\ \A c \in 1..Len(calls) :
          /\ calls[c].start = (c - 1) * inp.chunk
          /\ calls[c].start < Len(rays_flat)
          /\ Len(calls[c].rays) = (IF inp.chunk <= Len(rays_flat) - calls[c].start
                                    THEN inp.chunk ELSE Len(rays_flat) - calls[c].start)
          /\ \A j \in 1..Len(calls[c].rays) : calls[c].rays[j] = rays_flat[calls[c].start + j]
    /\ (pc \in {"reshape", "done"} /\ inp.chunk > 0) =>
          /\ \A r \in 1..Len(rays_flat) :
                Cardinality({ c \in 1..Len(calls) :
                    r \in (calls[c].start + 1)..(calls[c].start + Len(calls[c].rays)) }) = 1
          /\ \A k \in DOMAIN all_ret :
                /\ Len(all_ret[k]) = Len(rays_flat)
                /\ \A r \in 1..Len(rays_flat) :
                      all_ret[k][r] = calls[CallOf(r)].ret[k][r - calls[CallOf(r)].start]
    /\ pc = "done" => result = KExtract(Shaped(all_ret))

\* C2 witness: a batch rendered in several chunks whose first and last rays
\* get different colours.
C2_Witness ==
    /\ pc = "done"
    /\ Len(calls) >= 2
    /\ Len(inp.sh) = 1
    /\ result[1][1] # result[1][Len(rays_flat)]

\* the values of one map, ray by ray, in the outputs of an integrator pass
Rows(outs, k) == Tup([r \in 1..Len(outs) |-> outs[r][k]])

\* the rows of map k of the passes that decide the maps, over all the calls
AllRows(fine, k) ==
    Cat(Tup([c \in 1..Len(calls) |->
        Rows(IF fine THEN calls[c].fine ELSE calls[c].coarse, k)]))

\* C3: with N_importance > 0 the four maps are those of the second integrator
\* pass, the coarse maps are returned under rgb0, disp0, acc0 and depth0, and
\* z_std is returned; with N_importance = 0 none of these five keys is
\* returned and the four maps are those of the coarse pass.  This holds of
\* every render_rays call and of what render returns.
C3_FineMaps ==
    /\ \A c \in Returns :
          IF inp.kw.N_importance > 0
          THEN /\ \A k \in MapKeys : calls[c].ret[k] = Rows(calls[c].fine, k)
               /\ CoarseKeys \subseteq DOMAIN calls[c].ret
               /\ calls[c].ret["rgb0"] = Rows(calls[c].coarse, "rgb_map")
               /\ calls[c].ret["disp0"] = Rows(calls[c].coarse, "disp_map")
               /\ calls[c].ret["acc0"] = Rows(calls[c].coarse, "acc_map")
               /\ calls[c].ret["depth0"] = Rows(calls[c].coarse, "depth_map")
               /\ Len(calls[c].queries) = 2
          ELSE /\ DOMAIN calls[c].ret \cap CoarseKeys = {}
               /\ \A k \in MapKeys : calls[c].ret[k] = Rows(calls[c].coarse, k)
               /\ Len(calls[c].queries) = 1
    /\ pc = "done" =>
          /\ result[1] = Reshape(AllRows(inp.kw.N_importance > 0, "rgb_map"), inp.sh)
          /\ result[2] = Reshape(AllRows(inp.kw.N_importance > 0, "disp_map"), inp.sh)
          /\ result[3] = Reshape(AllRows(inp.kw.N_importance > 0, "acc_map"), inp.sh)
          /\ result[4] = Reshape(AllRows(inp.kw.N_importance > 0, "depth_map"), inp.sh)
          /\ IF inp.kw.N_importance > 0
             THEN /\ CoarseKeys \subseteq DOMAIN result[5]
                  /\ result[5]["rgb0"] = Reshape(AllRows(FALSE, "rgb_map"), inp.sh)
                  /\ result[5]["disp0"] = Reshape(AllRows(FALSE, "disp_map"), inp.sh)
                  /\ result[5]["acc0"] = Reshape(AllRows(FALSE, "acc_map"), inp.sh)
                  /\ result[5]["depth0"] = Reshape(AllRows(FALSE, "depth_map"), inp.sh)
             ELSE DOMAIN result[5] \cap CoarseKeys = {}

\* C3 witness: a render with a fine stage whose fine colours differ from the
\* coarse ones.
C3_Witness ==
    /\ pc = "done"
    /\ inp.kw.N_importance > 0
    /\ result[1] # result[5]["rgb0"]
    /\ result[2] # result[5]["disp0"]

C7_FailsBeforeProcessing ==
    inp.chunk <= 0 => (trace = <<>> /\ pc \in {"render", "failed"})

\* C7 (amended): with chunk <= 0 render never returns: it builds the ray
\* records, makes no render_rays call (so no sampling, no field query and no
\* integration), and fails, with the ValueError of range() when chunk = 0
\* and with the KeyError of the lookup of rgb_map in the empty result when
\* chunk < 0.
C7_ChunkNotPositive ==
    inp.chunk <= 0 =>
        /\ pc # "done"
        /\ calls = <<>>
        /\ rng = inp.rng
        /\ pc = "failed" =>
              /\ trace = <<"rays">>
              /\ error = IF inp.chunk = 0 THEN "ValueError" ELSE "KeyError"
        /\ pc # "failed" => ENABLED Next

\* C7 witness: a call with a negative chunk size has failed after building
\* its rays.
C7_Witness ==
    /\ inp.chunk < 0
    /\ Len(inp.rays) > 0
    /\ pc = "failed"
    /\ rays_flat # <<>>

\* C9: with perturb = 0 and raw_noise_std = 0 a render call draws no random
\* value, and what it returns is what it returns in any other state of the
\* generators: every render_rays call it made returns the same outputs
\* whatever that state, and the result is built from these outputs alone.
C9_Deterministic ==
    (inp.kw.perturb = 0 /\ inp.kw.raw_noise_std = 0) =>
        /\ rng.drawn = 0
        /\ rng.torch = inp.rng.torch
        /\ pc = "done" =>
              /\ \A c \in 1..Len(calls) : \A g \in RngStates :
                    render_rays(calls[c].rays, inp.kw, DEBUG, inp.scene, g).ret = calls[c].ret
              /\ result = KExtract(Shaped([k \in DOMAIN all_ret |->
                                 Cat(Tup([c \in 1..Len(calls) |-> calls[c].ret[k]]))]))

\* C9 witness: a deterministic render with a fine stage has returned, made
\* with the generators in another state than the seeded one.
C9_Witness ==
    /\ pc = "done"
    /\ inp.kw.perturb = 0
    /\ inp.kw.raw_noise_std = 0
    /\ inp.kw.N_importance > 0
    /\ inp.rng # Seeded

\* the outputs of a render_rays call that hold a NaN or an Inf
Anomalies(ret) == { k \in DOMAIN ret : Unhealthy(k, ret[k]) }

\* C10 (as claimed): a NaN or Inf in the outputs of render_rays is reported,
\* and it makes the call fail when DEBUG is on.
C10_ReportedAlways ==
    \A c \in 1..Len(calls) :
        Anomalies(calls[c].ret) # {} =>
            /\ printed # <<>>
            /\ DEBUG => calls[c].err # "none"

\* C10 (amended): a NaN or Inf in the outputs of render_rays never makes the
\* call fail, with DEBUG on or off: the call returns its outputs; the keys
\* that hold one are printed when DEBUG is on, and nothing is reported when
\* DEBUG is off.
C10_HealthCheck ==
    /\ \A c \in 1..Len(calls) :
          /\ calls[c].err = "none"
          /\ MapKeys \subseteq DOMAIN calls[c].ret
    /\ { printed[j] : j \in 1..Len(printed) }
          = IF DEBUG THEN UNION { Anomalies(calls[c].ret) : c \in 1..Len(calls) } ELSE {}
    /\ ~(pc = "failed" /\ calls # <<>>)

\* C10 witness: with DEBUG off, a render whose disparity is NaN has returned
\* and nothing was reported.
C10_Witness ==
    /\ pc = "done"
    /\ ~DEBUG
    /\ \E c \in 1..Len(calls) : "disp_map" \in Anomalies(calls[c].ret)
    /\ printed = <<>>

-----------------------------------------------------------------------------
(* The two stages of render_rays *)

\* how often x occurs in s
Count(s, x) == Cardinality({j \in 1..Len(s) : s[j] = x})

\* the values of s
Range(s) == {s[j] : j \in 1..Len(s)}

\* the depths zm hold N_samples + N_importance values in ascending order, each
\* as often as the coarse depths zc and the fine depths zf hold it together
IsMergeOf(zm, zc, zf) ==
    /\ Len(zc) = inp.kw.N_samples
    /\ Len(zf) = inp.kw.N_importance
    /\ Len(zm) = inp.kw.N_samples + inp.kw.N_importance
    /\ \A s \in 1..(Len(zm) - 1) : zm[s] <= zm[s + 1]
    /\ \A x \in Range(zm) \cup Range(zc) \cup Range(zf) :
            Count(zm, x) = Count(zc, x) + Count(zf, x)

\* C11: in every render_rays call of a render that has returned, if
\* N_importance > 0, there is a second query, and for every ray its depths are the ascending arrangement of the
\* N_samples coarse depths and the N_importance fine depths together, nothing
\* dropped or added; the points queried are the ray's points at these depths,
\* and the second integrator call is given the same depths.
C11_MergedDepths ==
    \A c \in Returns :
        (pc = "done" /\ inp.kw.N_importance > 0) =>
            /\ Len(calls[c].queries) = 2
            /\ \A r \in 1..Len(calls[c].rays) :
                    /\ IsMergeOf(calls[c].queries[2].z[r], calls[c].queries[1].z[r],
                                 calls[c].z_samples[r])
                    /\ calls[c].queries[2].pts[r]
                          = Points(Cols(calls[c].rays[r], 1, 3), Cols(calls[c].rays[r], 4, 6),
                                   calls[c].queries[2].z[r])
                    /\ calls[c].fine[r].depth_map
                          = SumSeq(Tup([s \in 1..Len(calls[c].queries[2].z[r]) |->
                                  Mul(calls[c].fine[r].weights[s], calls[c].queries[2].z[r][s])]))

\* C11 witness: a render with N_importance > 0 has returned, and on one of its
\* rays a fine depth fell between the first two coarse depths and another one
\* on a coarse depth.
C11_Witness ==
    /\ pc = "done"
    /\ inp.kw.N_importance > 0
    /\ \E c \in Returns : \E r \in 1..Len(calls[c].rays) :
          /\ \E j \in 1..Len(calls[c].z_samples[r]) :
                /\ calls[c].z_samples[r][j] > calls[c].queries[1].z[r][1]
                /\ calls[c].z_samples[r][j] < calls[c].queries[1].z[r][2]
          /\ \E j \in 1..Len(calls[c].z_samples[r]) :
                Count(calls[c].queries[1].z[r], calls[c].z_samples[r][j]) > 0

-----------------------------------------------------------------------------
(* The integrator on transparent and on opaque rays *)

\* C12: a ray whose activated density is 0 at every sample gets acc_map = 0
\* and weight 0 at every sample; its rgb_map is (0, 0, 0) without white_bkgd
\* and (1, 1, 1) with it, that is 1 - acc_map added to every channel.
C12_TransparentRay ==
    (pc = "int_done" /\ \A s \in 1..IntSamples : IntSigma[s] = 0) =>
        /\ result[1].acc_map = 0
        /\ \A s \in 1..IntSamples : result[1].weights[s] = 0
        /\ result[1].rgb_map = (IF inp.white_bkgd THEN <<ONE, ONE, ONE>> ELSE <<0, 0, 0>>)
        /\ \A c \in 1..3 :
              result[1].rgb_map[c] = (IF inp.white_bkgd THEN ONE - result[1].acc_map ELSE 0)

\* C12 witness: a transparent ray of several samples, one of them with a
\* negative raw density, has been integrated with white_bkgd.
C12_Witness ==
    /\ pc = "int_done"
    /\ IntSamples > 1
    /\ \A s \in 1..IntSamples : IntSigma[s] = 0
    /\ \E s \in 1..IntSamples : inp.raw[1][s][4] < 0
    /\ inp.white_bkgd
    /\ result[1].rgb_map = <<ONE, ONE, ONE>>

\* the colour of sample s of the integrated ray
IntRgb(s) == Tup([c \in 1..3 |-> Sigmoid(inp.raw[1][s][c])])

\* C13: on a ray whose first sample is fully opaque (alpha = 1), the first
\* sample gets weight exactly 1, the transmittance before it being 1; every
\* later sample gets a weight of at most epsilon, and so do all of them
\* together; so acc_map is 1, every channel of rgb_map is the first sample's
\* colour and depth_map is the first sample's depth, each up to the epsilon
\* share of the later samples.  With a single sample they are exact.
C13_OpaqueFirst ==
    (pc = "int_done" /\ IntAlpha[1] = ONE) =>
        /\ TransBefore(IntAlpha, 1) = ONE
        /\ result[1].weights[1] = ONE
        /\ \A s \in 2..IntSamples : result[1].weights[s] \in 0..EPS
        /\ result[1].acc_map \in ONE..(ONE + EPS)
        /\ \A c \in 1..3 :
              /\ result[1].rgb_map[c] >= IntRgb(1)[c] - EPS
              /\ result[1].rgb_map[c] <= IntRgb(1)[c] + EPS
        /\ result[1].depth_map >= inp.z_vals[1][1]
        /\ result[1].depth_map <= inp.z_vals[1][1] + Mul(EPS, inp.z_vals[1][IntSamples])
        /\ IntSamples = 1 =>
              /\ result[1].acc_map = ONE
              /\ result[1].depth_map = inp.z_vals[1][1]
              /\ result[1].rgb_map = IntRgb(1)

\* C13 witness: a ray of several samples whose first sample is opaque and has
\* the colour (1, 0, 0), and on which a later opaque sample got the weight
\* epsilon, has been integrated to the colour (1, 0, 0).
C13_Witness ==
    /\ pc = "int_done"
    /\ IntSamples > 1
    /\ IntAlpha[1] = ONE
    /\ IntRgb(1) = <<ONE, 0, 0>>
    /\ \E s \in 2..IntSamples : IntAlpha[s] = ONE /\ result[1].weights[s] = EPS
    /\ result[1].rgb_map = <<ONE, 0, 0>>

-----------------------------------------------------------------------------
(* The shape of what render returns *)

\* the leading indices of the caller's ray array
LeadingIndices ==
    IF Len(inp.sh) = 1 THEN { <<n>> : n \in 1..inp.sh[1] }
    ELSE (1..inp.sh[1]) \X (1..inp.sh[2])

\* the entry of the array x at the leading index p
At(x, p) == IF Len(p) = 1 THEN x[p[1]] ELSE x[p[1]][p[2]]

\* the array render returns for key k: one of the four maps or an extra
ReturnedArray(k) ==
    IF k = "rgb_map" THEN result[1]
    ELSE IF k = "disp_map" THEN result[2]
    ELSE IF k = "acc_map" THEN result[3]
    ELSE IF k = "depth_map" THEN result[4]
    ELSE result[5][k]

\* the record render builds for the ray at the leading index p alone
RecordAt(p) ==
    RayRecords(<<At(MarchedRays(inp), p)>>, <<At(CameraRays(inp), p)>>,
               inp.near, inp.far, inp.use_viewdirs)

\* C14: every array render returns, the four maps and every extras entry, has
\* the leading dimensions of the caller's ray array (H x W for a full frame,
\* the batch size for a flat batch), and its entry at the leading index p is
\* the output of a render_rays call that was handed the ray at p; in a render
\* that draws no random value it is what render_rays returns for that ray
\* alone.
C14_ShapeRestored ==
    pc = "done" =>
        /\ \A k \in DOMAIN all_ret :
              /\ Len(ReturnedArray(k)) = inp.sh[1]
              /\ Len(inp.sh) = 2 =>
                    \A h \in 1..Len(ReturnedArray(k)) : Len(ReturnedArray(k)[h]) = inp.sh[2]
        /\ \A p \in LeadingIndices :
              \E c \in Returns : \E r \in 1..Len(calls[c].rays) :
                  /\ calls[c].rays[r] = RecordAt(p)[1]
                  /\ \A k \in DOMAIN all_ret : At(ReturnedArray(k), p) = calls[c].ret[k][r]
        /\ (inp.kw.perturb = 0 /\ inp.kw.raw_noise_std = 0) =>
              \A p \in LeadingIndices :
                  \E one \in {render_rays(RecordAt(p), inp.kw, DEBUG, inp.scene, inp.rng).ret} :
                      /\ DOMAIN one = DOMAIN all_ret
                      /\ \A k \in DOMAIN one : At(ReturnedArray(k), p) = one[k][1]

\* C14 witness: a full frame of at least two rows and two columns has been
\* rendered in several chunks, with raw among the extras, and the pixels
\* (1, 2) and (2, 1) got different colours.
C14_Witness ==
    /\ pc = "done"
    /\ Len(inp.sh) = 2
    /\ inp.sh[1] >= 2
    /\ inp.sh[2] >= 2
    /\ Len(calls) >= 2
    /\ "raw" \in DOMAIN result[5]
    /\ result[1][1][2] # result[1][2][1]

-----------------------------------------------------------------------------
(* The order of the depths along a ray *)

\* z is strictly increasing
StrictlyIncreasing(z) == \A s \in 1..(Len(z) - 1) : z[s] < z[s + 1]

\* C15 (as claimed): at every field query and every integrator call, coarse
\* or fine, the depths of every ray are strictly increasing.
C15_StrictlyIncreasing ==
    \A c \in Returns : \A q \in 1..Len(calls[c].queries) :
        \A r \in 1..Len(calls[c].rays) : StrictlyIncreasing(calls[c].queries[q].z[r])

\* C15 (amended): in a render that has returned, the depths of the coarse
\* pass, with or without stratified jitter, are strictly increasing along every ray and lie between near and
\* far; the depths of the fine pass, after the merge, never decrease along
\* the ray, but a fine depth may coincide with a coarse depth or with
\* another fine depth.
C15_Ordered ==
    \A c \in Returns : \A r \in 1..Len(calls[c].rays) : pc = "done" =>
        /\ StrictlyIncreasing(calls[c].queries[1].z[r])
        /\ calls[c].queries[1].z[r][1] >= inp.near
        /\ calls[c].queries[1].z[r][inp.kw.N_samples] <= inp.far
        /\ \A q \in 2..Len(calls[c].queries) :
              \A s \in 1..(Len(calls[c].queries[q].z[r]) - 1) :
                  calls[c].queries[q].z[r][s] <= calls[c].queries[q].z[r][s + 1]

\* C15 witness: in a render with perturb = 0, the evenly spaced fine depths
\* of a ray include a coarse depth of that ray, so the merged depths hold it
\* twice.
C15_Witness ==
    /\ pc = "done"
    /\ inp.kw.perturb = 0
    /\ \E c \in Returns : \E r \in 1..Len(calls[c].rays) :
          /\ Len(calls[c].queries) = 2
          /\ \E j \in 1..Len(calls[c].z_samples[r]) :
                Count(calls[c].queries[1].z[r], calls[c].z_samples[r][j]) = 1
          /\ ~StrictlyIncreasing(calls[c].queries[2].z[r])

-----------------------------------------------------------------------------
(* The stratified jitter *)

\* the unperturbed depths of a ray of the call
Unperturbed == CoarseZ(inp.near, inp.far, inp.kw.N_samples, inp.kw.lindisp)

\* the bounds of the bin of sample s, z0 being the unperturbed depths: near,
\* the midpoints of adjacent unperturbed depths, far
BinLower(z0, s) == IF s = 1 THEN inp.near ELSE (z0[s - 1] + z0[s]) \div 2
\* z is lo + (hi - lo) * u for some u in [0, 1)
JitteredWithin(z, lo, hi) ==
    /\ \E u \in 0..(ONE - 1) : z = lo + Mul(hi - lo, u)
    /\ z >= lo
    /\ z < hi
    /\ z >= inp.near
    /\ z <= inp.far

\* C16: with perturb > 0, in every render_rays call of a render that has
\* returned, coarse sample s of every ray is
\* lower[s] + (upper[s] - lower[s]) * u for some u in [0, 1), where lower[1]
\* is near, upper[N_samples] is far and the bounds between are the midpoints
\* of adjacent unperturbed depths; so it lies in [lower[s], upper[s]) and in
\* [near, far].
C16_JitterInBin ==
    (pc = "done" /\ inp.kw.perturb > 0) =>
        \E z0 \in {Unperturbed} :
            \A c \in Returns : \A r \in 1..Len(calls[c].rays) : \A s \in 1..inp.kw.N_samples :
                JitteredWithin(calls[c].queries[1].z[r][s], BinLower(z0, s),
                               IF s = Len(z0) THEN inp.far ELSE (z0[s] + z0[s + 1]) \div 2)

\* C16 witness: a render with perturb > 0 has returned; one sample of a ray
\* sits on the lower bound of its bin, another was moved past its
\* unperturbed depth, and the last one lies short of far.
C16_Witness ==
    /\ pc = "done"
    /\ inp.kw.perturb > 0
    /\ \E c \in Returns : \E r \in 1..Len(calls[c].rays) :
          /\ \E s \in 1..inp.kw.N_samples :
                calls[c].queries[1].z[r][s] = BinLower(Unperturbed, s)
          /\ \E s \in 1..inp.kw.N_samples : calls[c].queries[1].z[r][s] > Unperturbed[s]
          /\ calls[c].queries[1].z[r][inp.kw.N_samples] < inp.far

-----------------------------------------------------------------------------
(* The order of the steps of render_rays *)

\* the positions of step x in the steps of call c
StepsAt(c, x) == { j \in 1..Len(calls[c].steps) : calls[c].steps[j] = x }

\* C17: every render_rays call of a render that has returned has queried the
\* field once when N_importance = 0 and exactly twice when N_importance > 0.  In the second case sample_pdf is
\* invoked exactly once, after the coarse integrator call and before the
\* second query, with the N_samples - 1 midpoints of the coarse depths as
\* bins, the N_samples - 2 interior coarse weights (the first and the last
\* left out), N_importance samples to draw, and det true exactly when
\* perturb = 0; in the first case it is not invoked.  The weights it is given
\* are those the coarse integrator call returned, and the depths it returns
\* are among those of the second query.
C17_CoarseToFine ==
    \A c \in Returns : pc = "done" =>
        /\ Len(calls[c].queries) = (IF inp.kw.N_importance > 0 THEN 2 ELSE 1)
        /\ Cardinality(StepsAt(c, "network_query_fn")) = Len(calls[c].queries)
        /\ Cardinality(StepsAt(c, "raw2outputs")) = Len(calls[c].queries)
        /\ Len(calls[c].pdf) = (IF inp.kw.N_importance > 0 THEN 1 ELSE 0)
        /\ Cardinality(StepsAt(c, "sample_pdf")) = Len(calls[c].pdf)
        /\ calls[c].steps[1] = "network_query_fn"
        /\ calls[c].steps[2] = "raw2outputs"
        /\ inp.kw.N_importance > 0 =>
              /\ calls[c].steps = <<"network_query_fn", "raw2outputs", "sample_pdf",
                                    "network_query_fn", "raw2outputs">>
              /\ calls[c].pdf[1].N_samples = inp.kw.N_importance
              /\ calls[c].pdf[1].det <=> (inp.kw.perturb = 0)
              /\ \A r \in 1..Len(calls[c].rays) :
                    /\ Len(calls[c].pdf[1].bins[r]) = inp.kw.N_samples - 1
                    /\ \A b \in 1..(inp.kw.N_samples - 1) :
                          calls[c].pdf[1].bins[r][b]
                              = (calls[c].queries[1].z[r][b] + calls[c].queries[1].z[r][b + 1]) \div 2
                    /\ Len(calls[c].pdf[1].weights[r]) = inp.kw.N_samples - 2
                    /\ \A b \in 1..(inp.kw.N_samples - 2) :
                          calls[c].pdf[1].weights[r][b] = calls[c].coarse[r].weights[b + 1]
                    /\ \A j \in 1..inp.kw.N_importance :
                          Count(calls[c].queries[2].z[r], calls[c].z_samples[r][j]) > 0

\* C17 witness: a call with jittered coarse depths has sampled, not
\* deterministically, from coarse weights whose first or last differs from
\* the interior one, and has queried the field a second time.
C17_Witness ==
    /\ pc = "done"
    /\ inp.kw.N_importance > 0
    /\ inp.kw.perturb > 0
    /\ \E c \in Returns : \E r \in 1..Len(calls[c].rays) :
          /\ Len(calls[c].queries) = 2
          /\ ~calls[c].pdf[1].det
          /\ calls[c].queries[1].z[r] # Unperturbed
          /\ calls[c].coarse[r].weights[1] # calls[c].coarse[r].weights[2]
          /\ calls[c].pdf[1].weights[r][1] > 0

-----------------------------------------------------------------------------
(* The network of each query *)

\* line 526: the view direction of a ray record, <<>> when it holds none
ViewDirOf(row) == IF Len(row) > 8 THEN SubSeq(row, Len(row) - 2, Len(row)) ELSE <<>>

-----------------------------------------------------------------------------
(* The slices of a field query *)

\* the slices sizes cut n rows in order into slices of at most chunk rows,
\* all full but the last; a chunk of None gives one slice
CutsInto(sizes, n, chunk) ==
    IF chunk = <<>> THEN sizes = <<n>>
    ELSE /\ SumSeq(sizes) = n
         /\ Len(sizes) = (n + chunk[1] - 1) \div chunk[1]
         /\ \A j \in 1..Len(sizes) : sizes[j] >= 1 /\ sizes[j] <= chunk[1]
         /\ \A j \in 1..(Len(sizes) - 1) : sizes[j] = chunk[1]

\* C19: in every query of every render_rays call of a render that has
\* returned, run_network applies the
\* field to consecutive slices of the flattened points, each of at most
\* netchunk rows, netchunk being set apart from the chunk of rays; and the
\* output at ray r and sample s is the field's output for the point of that
\* ray and sample, seen along the ray's view direction, whatever netchunk is.
C19_NetChunks ==
    \A c \in Returns : \A q \in 1..Len(calls[c].queries) : pc = "done" =>
        /\ CutsInto(calls[c].queries[q].slices,
                    Len(calls[c].rays) * Len(calls[c].queries[q].z[1]), inp.kw.netchunk)
        /\ Len(calls[c].queries[q].raw) = Len(calls[c].rays)
        /\ \A r \in 1..Len(calls[c].rays) :
              /\ Len(calls[c].queries[q].raw[r]) = Len(calls[c].queries[q].z[r])
              /\ \A x \in 1..Len(calls[c].queries[q].z[r]) :
                    calls[c].queries[q].raw[r][x]
                        = Field(inp.scene, calls[c].queries[q].net,
                                Points(Cols(calls[c].rays[r], 1, 3), Cols(calls[c].rays[r], 4, 6),
                                       calls[c].queries[q].z[r])[x],
                                ViewDirOf(calls[c].rays[r]))

\* C19 witness: a render whose queries were cut into several slices, the last
\* one short, and whose slices are larger than its chunk of rays, has
\* returned; the rays of one call got different answers.
C19_Witness ==
    /\ pc = "done"
    /\ inp.kw.netchunk # <<>>
    /\ inp.kw.netchunk[1] > inp.chunk
    /\ \E c \in Returns :
          /\ Len(calls[c].queries[1].slices) >= 2
          /\ calls[c].queries[1].slices[Len(calls[c].queries[1].slices)] < inp.kw.netchunk[1]
          /\ Len(calls[c].rays) >= 2
          /\ calls[c].queries[1].raw[1] # calls[c].queries[1].raw[2]

-----------------------------------------------------------------------------
(* The loop of batchify_rays *)

\* ceil(n / chunk) for a positive chunk
CeilDiv(n, chunk) == (n + chunk - 1) \div chunk

\* C20: for N >= 1 rays and chunk >= 1, batchify_rays makes its render_rays
\* calls one after another, call c on the rays from (c - 1) * chunk on, each
\* on at least 1 and at most chunk rays, only call ceil(N / chunk) on fewer
\* than chunk; it never makes more than ceil(N / chunk) calls; while fewer
\* have been made the loop goes on (i < N) and cannot return, after
\* ceil(N / chunk) calls the loop is over and batchify_rays returns, and it
\* has returned only after exactly ceil(N / chunk) calls.
C20_Terminates ==
    (inp.chunk >= 1 /\ Len(rays_flat) >= 1) =>
        /\ Len(calls) <= CeilDiv(Len(rays_flat), inp.chunk)
        /\ trace = <<"rays">> \o Tup([c \in 1..Len(calls) |-> "render_rays"])
        /\ \A c \in 1..Len(calls) :
              /\ calls[c].start = (c - 1) * inp.chunk
              /\ Len(calls[c].rays) >= 1
              /\ Len(calls[c].rays) <= inp.chunk
              /\ Len(calls[c].rays) < inp.chunk => c = CeilDiv(Len(rays_flat), inp.chunk)
              /\ c > 1 => calls[c].start = calls[c - 1].start + Len(calls[c - 1].rays)
        /\ (pc = "batchify" /\ Returns = 1..Len(calls)) => i = Len(calls) * inp.chunk
        /\ (pc = "batchify" /\ Len(calls) < CeilDiv(Len(rays_flat), inp.chunk))
              => i < Len(rays_flat) /\ ~ENABLED BatchifyConcat
        /\ (pc = "batchify" /\ Len(calls) = CeilDiv(Len(rays_flat), inp.chunk))
              => i >= Len(rays_flat) /\ ENABLED BatchifyConcat
        /\ pc \in {"reshape", "done"} => Len(calls) = CeilDiv(Len(rays_flat), inp.chunk)

\* C20 witness: a batch whose size is no multiple of the chunk size has been
\* rendered in several calls, the last of them on fewer rays than the chunk.
C20_Witness ==
    /\ pc = "done"
    /\ inp.chunk >= 2
    /\ Len(calls) >= 2
    /\ Len(calls[1].rays) = inp.chunk
    /\ Len(calls[Len(calls)].rays) < inp.chunk

-----------------------------------------------------------------------------
(* The static camera *)

\* the rays of a camera over the image of the running call, in row-major order
FlatRaysOf(c2w) == Flatten(get_rays(inp.sh[1], inp.sh[2], c2w), inp.sh)

\* C23 (as claimed): when a static camera is supplied to render, the
\* direction of every ray handed on is the one computed from the pose c2w and
\* its origin is the one of c2w_staticcam.
C23_DirectionsFromCamera ==
    (pc # "render" /\ inp.c2w_staticcam # <<>>) =>
        \A r \in 1..Len(rays_flat) :
            /\ Cols(rays_flat[r], 4, 6) = FlatRaysOf(inp.c2w[1])[r].d
            /\ Cols(rays_flat[r], 1, 3) = FlatRaysOf(inp.c2w_staticcam[1])[r].o

\* C23 (amended): when a static camera is supplied to render together with
\* use_viewdirs, the view direction of every ray handed on is the normalised
\* direction computed from the pose c2w, while both its origin and the
\* direction it is marched along are those computed from c2w_staticcam;
\* without use_viewdirs the static camera is ignored: origin and direction
\* are those of c2w and the ray carries no view direction.
C23_StaticCamera ==
    (pc # "render" /\ inp.c2w_staticcam # <<>>) =>
        /\ Len(rays_flat) = inp.sh[1] * inp.sh[2]
        /\ \A r \in 1..Len(rays_flat) :
              IF inp.use_viewdirs
              THEN /\ Cols(rays_flat[r], 1, 3) = FlatRaysOf(inp.c2w_staticcam[1])[r].o
                   /\ Cols(rays_flat[r], 4, 6) = FlatRaysOf(inp.c2w_staticcam[1])[r].d
                   /\ Cols(rays_flat[r], 9, 11) = Normalize(FlatRaysOf(inp.c2w[1])[r].d)
              ELSE /\ Cols(rays_flat[r], 1, 3) = FlatRaysOf(inp.c2w[1])[r].o
                   /\ Cols(rays_flat[r], 4, 6) = FlatRaysOf(inp.c2w[1])[r].d
                   /\ Len(rays_flat[r]) = 8

\* C23 witness: a render with view directions has returned whose static
\* camera differs from the true camera, and a ray of it is marched along a
\* direction that is not the one of the true camera.
C23_Witness ==
    /\ pc = "done"
    /\ inp.c2w_staticcam # <<>>
    /\ inp.use_viewdirs
    /\ inp.c2w_staticcam # inp.c2w
    /\ \E r \in 1..Len(rays_flat) :
          /\ Cols(rays_flat[r], 4, 6) # FlatRaysOf(inp.c2w[1])[r].d
          /\ Cols(rays_flat[r], 9, 11) = Normalize(FlatRaysOf(inp.c2w[1])[r].d)

-----------------------------------------------------------------------------
(* train and create_nerf, lines 311-421 and 838-1406, with random-ray       *)
(* batching (no_batching unset).  The weights of the networks and the       *)
(* state of the optimizer are represented by the number of optimizer steps *)
(* that produced them.  A dictionary is a function from its keys, kept in   *)
(* heap and named by its reference, so that two names of one dictionary     *)
(* and two dictionaries with equal entries are told apart.  The value False *)
(* of perturb is the number 0, with which it compares equal.  The renders   *)
(* of the logging branches (lines 1268-1403) change none of this state.     *)

MaxIters == 4
MaxTrainRays == 3
MaxRand == 3
MaxRuns == 2

\* line 1096: N_iters = 200000 + 1, with MaxIters for 200000
N_iters == MaxIters + 1

\* d.update(e)
DictUpdate(d, e) ==
    [k \in DOMAIN d \cup DOMAIN e |-> IF k \in DOMAIN e THEN e[k] ELSE d[k]]

\* a variant of CopyDict in which the new name refers to the same dictionary
AliasDict(h, ref) == [heap |-> h, ref |-> ref]

\* line 417: {k: d[k] for k in d}, a new dictionary with the entries of the
\* dictionary at ref
CopyDict(h, ref) == [heap |-> Append(h, h[ref]), ref |-> Len(h) + 1]

\* a variant of TrainKwargs that never passes lindisp on
TrainKwargsNoLindisp(args) ==
    DictUpdate(
        [network_query_fn |-> "network_query_fn", perturb |-> args.perturb,
         N_importance |-> args.N_importance, network_fine |-> IF args.N_importance > 0 THEN "network_fine" ELSE "none",
         N_samples |-> args.N_samples, network_fn |-> "network_fn",
         use_viewdirs |-> args.use_viewdirs, white_bkgd |-> args.white_bkgd,
         raw_noise_std |-> args.raw_noise_std],
        IF args.dataset_type # "llff" \/ args.no_ndc THEN [ndc |-> FALSE] ELSE <<>>)

\* lines 399-415: render_kwargs_train; ndc and lindisp are entered only for
\* a dataset that is not rendered in normalized device coordinates
TrainKwargs(args) ==
    DictUpdate(
        [network_query_fn |-> "network_query_fn", perturb |-> args.perturb,
         N_importance |-> args.N_importance, network_fine |-> IF args.N_importance > 0 THEN "network_fine" ELSE "none",
         N_samples |-> args.N_samples, network_fn |-> "network_fn",
         use_viewdirs |-> args.use_viewdirs, white_bkgd |-> args.white_bkgd,
         raw_noise_std |-> args.raw_noise_std],
        IF args.dataset_type # "llff" \/ args.no_ndc
        THEN [ndc |-> FALSE, lindisp |-> args.lindisp]
        ELSE <<>>)

\* lines 384-385: a checkpoint is reloaded when one exists and no_reload is unset
Reloads(args, files) == DOMAIN files # {} /\ ~args.no_reload

\* line 386: ckpts[-1], the last of the sorted file names
Latest(files) == CHOOSE n \in DOMAIN files : \A m \in DOMAIN files : m <= n

\* create_nerf(args), lines 311-421, with the checkpoint files it finds.
\* kwargs holds the two configurations: the training configuration at
\* reference 1 and, at ref, the evaluation configuration, a copy of it with
\* perturb and raw_noise_std overwritten (lines 417-419)
create_nerf(args, files) ==
    [kwargs |-> [heap |-> [CopyDict(<<TrainKwargs(args)>>, 1).heap
                              EXCEPT ![CopyDict(<<TrainKwargs(args)>>, 1).ref] =
                                  DictUpdate(@, [perturb |-> 0, raw_noise_std |-> 0])],
                 ref |-> CopyDict(<<TrainKwargs(args)>>, 1).ref],
     start |-> IF Reloads(args, files) THEN files[Latest(files)].global_step ELSE 0,
     optimizer |-> IF Reloads(args, files)
                   THEN files[Latest(files)].optimizer_state_dict ELSE 0]

\* lines 899-950: near and far of the dataset (for llff without ndc and for
\* deepvoxels they are computed from the data)
Bounds(args) ==
    IF args.dataset_type = "llff"
    THEN (IF args.no_ndc THEN [near |-> ONE, far |-> 4 * ONE] ELSE [near |-> 0, far |-> ONE])
    ELSE IF args.dataset_type = "blender" THEN [near |-> 2 * ONE, far |-> 6 * ONE]
    ELSE [near |-> 2 * ONE, far |-> 4 * ONE]

\* the orders of n rays
Perms(n) == { p \in [1..n -> 1..n] : \A a, b \in 1..n : p[a] = p[b] => a = b }

\* the arguments of train: those that vary what create_nerf configures;
\* those that vary the batches (the batch size and the number of training
\* rays); and those that vary the checkpoints (whether there is a fine
\* network, the checkpoint period and whether checkpoints are reloaded)
TrainArgs ==
    { [fn |-> "train", dataset_type |-> ds, no_ndc |-> nn, lindisp |-> ld,
       perturb |-> rand[1], raw_noise_std |-> rand[2], N_importance |-> ni,
       N_samples |-> NSamples, use_viewdirs |-> FALSE, white_bkgd |-> FALSE,
       no_reload |-> FALSE, N_rand |-> 2, i_weights |-> 2, rays |-> 2] :
        ds \in {"llff", "blender", "deepvoxels"}, nn \in BOOLEAN, ld \in BOOLEAN,
        rand \in {<<ONE, 0>>, <<ONE, NoiseStd>>, <<0, 0>>}, ni \in {0, NImportance} }
    \cup
    { [fn |-> "train", dataset_type |-> "blender", no_ndc |-> FALSE, lindisp |-> FALSE,
       perturb |-> ONE, raw_noise_std |-> 0, N_importance |-> NImportance,
       N_samples |-> NSamples, use_viewdirs |-> FALSE, white_bkgd |-> FALSE,
       no_reload |-> FALSE, N_rand |-> nrand, i_weights |-> 2, rays |-> n] :
        nrand \in 1..MaxRand, n \in 1..MaxTrainRays }
    \cup
    { [fn |-> "train", dataset_type |-> "blender", no_ndc |-> FALSE, lindisp |-> FALSE,
       perturb |-> ONE, raw_noise_std |-> 0, N_importance |-> ni,
       N_samples |-> NSamples, use_viewdirs |-> FALSE, white_bkgd |-> FALSE,
       no_reload |-> nr, N_rand |-> 2, i_weights |-> iw, rays |-> 2] :
        ni \in {0, NImportance}, nr \in BOOLEAN, iw \in 1..2 }

InitTrain ==
    /\ pc = "train"
    /\ inp \in TrainArgs
    /\ error = "none"
    /\ DEBUG = FALSE
    /\ rng = Seeded
    /\ rays_flat = <<>>
    /\ i = 0
    /\ all_ret = <<>>
    /\ calls = <<>>
    /\ printed = <<>>
    /\ trace = <<>>
    /\ result = <<>>
    /\ NoTraining

\* lines 994-996: the call of create_nerf
CreateNerf ==
    /\ pc = "train"
    /\ runs < MaxRuns
    /\ \E c \in {create_nerf(inp, ckpts)} :
          /\ heap' = c.kwargs.heap
          /\ render_kwargs_train' = 1
          /\ render_kwargs_test' = c.kwargs.ref
          /\ start' = c.start
          /\ optimizer' = c.optimizer
    /\ runs' = runs + 1
    /\ pc' = "setup"
    /\ UNCHANGED <<inp, error, renderVars, global_step, iter, i_batch, rays_rgb,
                   ckpts, epoch, last_epoch, rendered>>

\* lines 998-1128: the step counter, near and far entered in both
\* configurations, the rays shuffled, the cursor and the first iteration
TrainSetup ==
    /\ pc = "setup"
    /\ global_step' = start
    /\ heap' = [[heap EXCEPT ![render_kwargs_train] = DictUpdate(@, Bounds(inp))]
                      EXCEPT ![render_kwargs_test] = DictUpdate(@, Bounds(inp))]
    /\ rays_rgb' \in Perms(inp.rays)
    /\ i_batch' = 0
    /\ start' = start + 1
    /\ iter' = start + 1
    /\ pc' = "loop"
    /\ UNCHANGED <<inp, error, renderVars, render_kwargs_train, render_kwargs_test,
                   optimizer, ckpts, epoch, last_epoch, rendered, runs>>

\* a variant of Wraps that resets the cursor only once it is past the rays
WrapsPast(cursor, n) == cursor > n

\* line 1143: the cursor has reached or passed the end of the rays
Wraps(cursor, n) == cursor >= n

\* lines 1129-1405: one iteration of the loop.  The batch is taken and the
\* cursor advanced (1135-1147), the batch is rendered and the optimizer
\* steps (1217-1238; the coarse depths of the render are those of lines
\* 530-536, with lindisp False unless the configuration holds it, line 486);
\* at a multiple of i_weights the checkpoint is saved
\* (1251-1266), which raises AttributeError in state_dict() of None when
\* there is no fine network; then the step counter advances (1405).
TrainStep ==
    /\ pc = "loop"
    /\ iter < N_iters
    /\ IF Wraps(i_batch + inp.N_rand, Len(rays_rgb))
       THEN /\ rays_rgb' \in Perms(Len(rays_rgb))
            /\ i_batch' = 0
            /\ epoch' = <<>>
            /\ last_epoch' = Append(epoch, Slice(rays_rgb, i_batch, inp.N_rand))
       ELSE /\ i_batch' = i_batch + inp.N_rand
            /\ epoch' = Append(epoch, Slice(rays_rgb, i_batch, inp.N_rand))
            /\ UNCHANGED <<rays_rgb, last_epoch>>
    /\ \E kw \in {heap[render_kwargs_train]} :
          \E ld \in {IF "lindisp" \in DOMAIN kw THEN kw.lindisp ELSE FALSE} :
              rendered' = <<[near |-> kw.near, far |-> kw.far, N_samples |-> kw.N_samples,
                             lindisp |-> ld,
                             z_vals |-> CoarseZ(kw.near, kw.far, kw.N_samples, ld)]>>
    /\ optimizer' = optimizer + 1
    /\ IF iter % inp.i_weights = 0 /\ heap[render_kwargs_train].network_fine = "none"
       THEN /\ error' = "AttributeError"
            /\ pc' = "failed"
            /\ UNCHANGED <<ckpts, global_step, iter>>
       ELSE /\ ckpts' = IF iter % inp.i_weights = 0
                        THEN DictUpdate(ckpts, (iter :> [global_step |-> global_step,
                                                     network_fn_state_dict |-> optimizer + 1,
                                                     network_fine_state_dict |-> optimizer + 1,
                                                     optimizer_state_dict |-> optimizer + 1]))
                        ELSE ckpts
            /\ global_step' = global_step + 1
            /\ iter' = iter + 1
            /\ UNCHANGED <<pc, error>>
    /\ UNCHANGED <<inp, renderVars, heap, render_kwargs_train, render_kwargs_test,
                   start, runs>>

\* line 1406: the loop is over
TrainEnd ==
    /\ pc = "loop"
    /\ iter >= N_iters
    /\ pc' = "trained"
    /\ UNCHANGED <<inp, error, renderVars, trainVars>>

\* the process has ended (the loop is over, it failed, or it was stopped
\* between two iterations) and train is run again with the same arguments:
\* nothing is kept but the checkpoint files
Rerun ==
    /\ pc \in {"loop", "failed", "trained"}
    /\ runs < MaxRuns
    /\ pc' = "train"
    /\ error' = "none"
    /\ heap' = <<>>
    /\ render_kwargs_train' = 0
    /\ render_kwargs_test' = 0
    /\ start' = 0
    /\ global_step' = 0
    /\ iter' = 0
    /\ i_batch' = 0
    /\ rays_rgb' = <<>>
    /\ optimizer' = 0
    /\ epoch' = <<>>
    /\ last_epoch' = <<>>
    /\ rendered' = <<>>
    /\ UNCHANGED <<inp, renderVars, ckpts, runs>>

NextTrain ==
    \/ CreateNerf
    \/ TrainSetup
    \/ TrainStep
    \/ TrainEnd
    \/ Rerun

SpecTrain == InitTrain /\ [][NextTrain]_vars

-----------------------------------------------------------------------------
(* The spacing of the coarse depths *)

\* the differences between successive values of x are equal, up to tol grid
\* units of rounding
EvenlySpaced(x, tol) ==
    \A s \in 2..(Len(x) - 1) :
        /\ (x[s + 1] - x[s]) - (x[s] - x[s - 1]) <= tol
        /\ (x[s] - x[s - 1]) - (x[s + 1] - x[s]) <= tol

\* z runs from near to far in equal steps of depth, up to the rounding of a
\* second difference of depths: each depth is off by at most one grid unit
\* of t times far - near, and the two roundings of its products
LinearInDepth(z, near, far) ==
    /\ z[1] = near
    /\ z[Len(z)] = far
    /\ EvenlySpaced(z, 2 * (((far - near) \div ONE) + 2))

\* z runs from near to far in equal steps of 1 / depth
LinearInDisparity(z, near, far) ==
    /\ FRecip(z[1]) = FRecip(near)
    /\ FRecip(z[Len(z)]) = FRecip(far)
    /\ EvenlySpaced(Tup([s \in 1..Len(z) |-> FRecip(z[s])]), 4)

-----------------------------------------------------------------------------
(* The two render configurations *)

\* C22: once create_nerf has returned, and after train has entered near and
\* far in both configurations, the evaluation configuration has the keys of
\* the training configuration and the same value under each of them except
\* perturb and raw_noise_std, which are 0 in the evaluation configuration;
\* the two are different dictionaries, and the training configuration still
\* holds the perturb and raw_noise_std of the arguments.
C22_EvalConfig ==
    pc \in {"setup", "loop", "failed", "trained"} =>
        /\ render_kwargs_test # render_kwargs_train
        /\ DOMAIN heap[render_kwargs_test] = DOMAIN heap[render_kwargs_train]
        /\ \A k \in DOMAIN heap[render_kwargs_train] \ {"perturb", "raw_noise_std"} :
              heap[render_kwargs_test][k] = heap[render_kwargs_train][k]
        /\ heap[render_kwargs_test].perturb = 0
        /\ heap[render_kwargs_test].raw_noise_std = 0
        /\ heap[render_kwargs_train].perturb = inp.perturb
        /\ heap[render_kwargs_train].raw_noise_std = inp.raw_noise_std
        /\ pc # "setup" => {"near", "far"} \subseteq DOMAIN heap[render_kwargs_test]

\* C22 witness: training runs with jitter and density noise configured, near
\* and far have been entered in both configurations, and the evaluation
\* configuration has neither jitter nor noise.
C22_Witness ==
    /\ pc = "loop"
    /\ rendered # <<>>
    /\ inp.perturb > 0
    /\ inp.raw_noise_std > 0
    /\ heap[render_kwargs_train].perturb > 0
    /\ heap[render_kwargs_train].raw_noise_std > 0
    /\ heap[render_kwargs_test].perturb = 0
    /\ heap[render_kwargs_test].raw_noise_std = 0
    /\ heap[render_kwargs_test].near = heap[render_kwargs_train].near

-----------------------------------------------------------------------------
(* The cursor of the training batches *)

\* C24: at the start of every iteration of the training loop the cursor
\* i_batch is a multiple of N_rand with 0 <= i_batch < number of rays, so
\* the batch about to be taken holds between 1 and N_rand rays; the batches
\* taken since the last shuffle are the rays before the cursor, without
\* repetition, N_rand rays each; the batches of the last completed epoch
\* hold every training ray exactly once, all of them N_rand rays long except
\* possibly the last: the cursor was reset, with a shuffle, exactly when
\* i_batch + N_rand reached or passed the number of rays.
C24_BatchCursor ==
    pc = "loop" =>
        /\ 0 <= i_batch
        /\ i_batch < Len(rays_rgb)
        /\ i_batch % inp.N_rand = 0
        /\ Len(Slice(rays_rgb, i_batch, inp.N_rand)) \in 1..inp.N_rand
        /\ i_batch = inp.N_rand * Len(epoch)
        /\ Cat(epoch) = SubSeq(rays_rgb, 1, i_batch)
        /\ Cardinality(Range(Cat(epoch))) = i_batch
        /\ \A b \in 1..Len(epoch) : Len(epoch[b]) = inp.N_rand
        /\ last_epoch # <<>> =>
              /\ Len(Cat(last_epoch)) = Len(rays_rgb)
              /\ Range(Cat(last_epoch)) = 1..Len(rays_rgb)
              /\ \A b \in 1..(Len(last_epoch) - 1) : Len(last_epoch[b]) = inp.N_rand
              /\ Len(last_epoch[Len(last_epoch)]) \in 1..inp.N_rand
              /\ inp.N_rand * Len(last_epoch) >= Len(rays_rgb)
              /\ inp.N_rand * (Len(last_epoch) - 1) < Len(rays_rgb)

\* C24 witness: an epoch of several batches, the last of them short, has
\* been completed and the next epoch is under way.
C24_Witness ==
    /\ pc = "loop"
    /\ Len(last_epoch) >= 2
    /\ Len(last_epoch[Len(last_epoch)]) < inp.N_rand
    /\ epoch # <<>>
    /\ i_batch > 0

-----------------------------------------------------------------------------
(* Checkpoints and resuming *)

\* C25 (as claimed): in every configuration, with or without a fine network,
\* every completed iteration i with i % i_weights = 0 has left a checkpoint
\* that holds global_step, the state of the coarse network, of the fine
\* network and of the optimizer, and training never fails at the save.
C25_CheckpointSaved ==
    /\ error # "AttributeError"
    /\ \A j \in { j \in start..(iter - 1) : pc \in {"loop", "trained"} } :
          j % inp.i_weights = 0 =>
              /\ j \in DOMAIN ckpts
              /\ DOMAIN ckpts[j] = {"global_step", "network_fn_state_dict",
                                    "network_fine_state_dict", "optimizer_state_dict"}

\* C26 (as claimed): the step counter stored in a checkpoint is the number of
\* optimizer steps applied to the weights saved with it, and a process that
\* has reloaded the checkpoint of iteration i starts its loop at i + 1.
C26_ResumeExact ==
    /\ \A j \in DOMAIN ckpts : ckpts[j].global_step = ckpts[j].optimizer_state_dict
    /\ (pc = "setup" /\ Reloads(inp, ckpts)) => start + 1 = Latest(ckpts) + 1

=============================================================================
